---- MODULE Spec2Model ----
(***************************************************************************)
(* A model of the pvpccheap backend: the optimal-hour selector             *)
(* (services/scheduler.rs), the schedule regeneration paths (api/rules.rs, *)
(* api/schedule.rs, background_tasks.rs) and the store of scheduled        *)
(* actions they share.                                                     *)
(*                                                                         *)
(* Representation.  A NaiveTime is its number of seconds since midnight.   *)
(* An Option<T> is a sequence: <<>> is None and <<x>> is Some(x).  A price *)
(* (f64, euro per kWh) is an integer number of price units; an average     *)
(* price is compared as an exact fraction.  A Vec is a sequence.           *)
(***************************************************************************)
EXTENDS Integers, Sequences, FiniteSets, TLC

(***************************************************************************)
(* Bounds of the model.                                                    *)
(***************************************************************************)
\* the longest price list the selector is applied to
MaxLen == 4
\* prices are drawn from 1..MaxPrice
MaxPrice == 2

(***************************************************************************)
(* Time and options.                                                       *)
(***************************************************************************)
None == <<>>
Some(x) == <<x>>
IsSome(o) == o # <<>>
Unwrap(o) == o[1]

\* NaiveTime::from_hms_opt(h, m, s)
from_hms(h, m, s) == h * 3600 + m * 60 + s
\* Timelike::hour
hour_of(t) == t \div 3600

(***************************************************************************)
(* Sequence helpers: Vec::sort / sort_by are stable sorts.                 *)
(***************************************************************************)
RECURSIVE InsertHour(_, _)
InsertHour(s, x) ==
    IF s = <<>> THEN <<x>>
    ELSE IF x < Head(s) THEN <<x>> \o s
         ELSE <<Head(s)>> \o InsertHour(Tail(s), x)

RECURSIVE SortHours(_)
\* Vec<u8>::sort
SortHours(s) ==
    IF s = <<>> THEN <<>>
    ELSE InsertHour(SortHours(SubSeq(s, 1, Len(s) - 1)), s[Len(s)])

RECURSIVE InsertPrice(_, _)
\* x goes after every entry whose price is not greater: the sort is stable
InsertPrice(s, x) ==
    IF s = <<>> THEN <<x>>
    ELSE IF x.price < Head(s).price THEN <<x>> \o s
         ELSE <<Head(s)>> \o InsertPrice(Tail(s), x)

RECURSIVE SortByPrice(_)
\* sort_by(|a, b| a.price.partial_cmp(&b.price))
SortByPrice(s) ==
    IF s = <<>> THEN <<>>
    ELSE InsertPrice(SortByPrice(SubSeq(s, 1, Len(s) - 1)), s[Len(s)])

Range(s) == {s[i] : i \in 1..Len(s)}

RECURSIVE SumPrices(_)
SumPrices(s) == IF s = <<>> THEN 0 ELSE Head(s).price + SumPrices(Tail(s))

Take(s, n) == SubSeq(s, 1, IF n < Len(s) THEN n ELSE Len(s))

\* price_map[&hour]: the price of an hour of the list (hours are distinct)
PriceAt(prices, h) == prices[CHOOSE i \in 1..Len(prices) : prices[i].hour = h].price

(***************************************************************************)
(* services/scheduler.rs                                                   *)
(***************************************************************************)
OptimalHours(hours, total_price) == [hours |-> hours, total_price |-> total_price]

\* mutant: the end bound taken as inclusive
filter_by_time_window_end_inclusive(prices, start, end) ==
    IF ~IsSome(start) /\ ~IsSome(end) THEN prices
    ELSE IF IsSome(start) /\ IsSome(end) THEN
        LET start_hour == hour_of(Unwrap(start))
            end_hour == hour_of(Unwrap(end))
            Keep(p) == IF start_hour <= end_hour
                       THEN p.hour >= start_hour /\ p.hour <= end_hour
                       ELSE p.hour >= start_hour \/ p.hour <= end_hour
        IN SelectSeq(prices, Keep)
    ELSE IF IsSome(start) THEN
        LET start_hour == hour_of(Unwrap(start))
            Keep(p) == p.hour >= start_hour
        IN SelectSeq(prices, Keep)
    ELSE
        LET end_hour == hour_of(Unwrap(end))
            Keep(p) == p.hour <= end_hour
        IN SelectSeq(prices, Keep)

filter_by_time_window(prices, start, end) ==
    IF ~IsSome(start) /\ ~IsSome(end) THEN prices
    ELSE IF IsSome(start) /\ IsSome(end) THEN
        LET start_hour == hour_of(Unwrap(start))
            end_hour == hour_of(Unwrap(end))
            Keep(p) == IF start_hour <= end_hour
                       THEN p.hour >= start_hour /\ p.hour < end_hour
                       ELSE p.hour >= start_hour \/ p.hour < end_hour
        IN SelectSeq(prices, Keep)
    ELSE IF IsSome(start) THEN
        LET start_hour == hour_of(Unwrap(start))
            Keep(p) == p.hour >= start_hour
        IN SelectSeq(prices, Keep)
    ELSE
        LET end_hour == hour_of(Unwrap(end))
            Keep(p) == p.hour < end_hour
        IN SelectSeq(prices, Keep)

\* mutant: the list is not sorted by price before the first max_hours are taken
calculate_scattered_hours_unsorted(prices, max_hours) ==
    LET selected == Take(prices, max_hours)
        hours == SortHours([i \in 1..Len(selected) |-> selected[i].hour])
    IN OptimalHours(hours, SumPrices(selected))

calculate_scattered_hours(prices, max_hours) ==
    LET sorted_prices == SortByPrice(prices)
        selected == Take(sorted_prices, max_hours)
        hours == SortHours([i \in 1..Len(selected) |-> selected[i].hour])
    IN OptimalHours(hours, SumPrices(selected))

\* mutant: any later hour counts as consecutive
is_consecutive_any_later(prev_hour, curr_hour) ==
    (curr_hour >= prev_hour + 1) \/ (prev_hour = 23 /\ curr_hour = 0)

\* is_consecutive: the next hour, or 23 followed by 0
is_consecutive(prev_hour, curr_hour) ==
    (curr_hour = prev_hour + 1) \/ (prev_hour = 23 /\ curr_hour = 0)

RECURSIVE block_loop(_, _, _, _, _, _)
\* the inner loop over j of calculate_continuous_blocks: the block that starts
\* at available_hours[i] grows while the next available hour is consecutive,
\* and is recorded each time it holds at least min_continuous hours
block_loop(prices, available_hours, j, block_hours, block_price, min_continuous) ==
    IF j > Len(available_hours) THEN <<>>
    ELSE IF ~is_consecutive(block_hours[Len(block_hours)], available_hours[j]) THEN <<>>
    ELSE LET hours2 == Append(block_hours, available_hours[j])
             price2 == block_price + PriceAt(prices, available_hours[j])
             rest == block_loop(prices, available_hours, j + 1, hours2, price2, min_continuous)
         IN IF Len(hours2) >= min_continuous
            THEN <<[hours |-> hours2, sum |-> price2]>> \o rest
            ELSE rest

RECURSIVE all_blocks(_, _, _, _)
\* the outer loop over i: every candidate block, in the order it is pushed
all_blocks(prices, available_hours, i, min_continuous) ==
    IF i > Len(available_hours) THEN <<>>
    ELSE block_loop(prices, available_hours, i + 1, <<available_hours[i]>>,
                    PriceAt(prices, available_hours[i]), min_continuous)
         \o all_blocks(prices, available_hours, i + 1, min_continuous)

\* mutant: the comparison of the averages is reversed
avg_less_reversed(a, b) == b.sum * Len(a.hours) < a.sum * Len(b.hours)

\* a.1 < b.1 for the average prices sum / len, as exact fractions
avg_less(a, b) == a.sum * Len(b.hours) < b.sum * Len(a.hours)

\* how many blocks a stable sort by average puts before each block: those of
\* a lower average and the earlier ones of the same average
BlockRanks(s) ==
    SubSeq([i \in 1..Len(s) |->
               Cardinality({j \in 1..Len(s) :
                   \/ avg_less(s[j], s[i])
                   \/ (~avg_less(s[i], s[j]) /\ j < i)})],
           1, Len(s))

PlaceByRank(s, rank) == [k \in 1..Len(s) |-> s[CHOOSE i \in 1..Len(s) : rank[i] = k - 1]]

\* blocks.sort_by(|a, b| a.1.partial_cmp(&b.1)), a stable sort
SortBlocks(s) == PlaceByRank(s, BlockRanks(s))

\* mutant: only the first hour of a block is added to the total
SumHours_first(prices, hours) ==
    IF hours = <<>> THEN 0 ELSE PriceAt(prices, Head(hours))

RECURSIVE SumHours(_, _)
\* for hour in &block_hours { total_price += price_map[hour] }
SumHours(prices, hours) ==
    IF hours = <<>> THEN 0 ELSE PriceAt(prices, Head(hours)) + SumHours(prices, Tail(hours))

RECURSIVE select_blocks_no_budget(_, _, _, _, _)
\* mutant: a block is taken without the check that it fits in max_hours
select_blocks_no_budget(prices, blocks, selected_hours, total_price, max_hours) ==
    IF blocks = <<>> THEN OptimalHours(selected_hours, total_price)
    ELSE IF Len(blocks) = 1
    THEN LET block == blocks[1]
             overlaps == Range(block.hours) \cap Range(selected_hours) # {}
         IN IF ~overlaps
            THEN OptimalHours(selected_hours \o block.hours,
                              total_price + SumHours(prices, block.hours))
            ELSE OptimalHours(selected_hours, total_price)
    ELSE LET mid == Len(blocks) \div 2
             first == select_blocks_no_budget(prices, SubSeq(blocks, 1, mid),
                                              selected_hours, total_price, max_hours)
         IN IF Len(first.hours) >= max_hours
            THEN first
            ELSE select_blocks_no_budget(prices, SubSeq(blocks, mid + 1, Len(blocks)),
                                         first.hours, first.total_price, max_hours)

RECURSIVE select_blocks(_, _, _, _, _)
\* the greedy loop over the sorted blocks, the first half of the list and then
\* the second: a block is taken when it shares no hour with the hours
\* selected so far and fits in max_hours; once max_hours is reached the loop
\* breaks and the blocks that follow are not looked at
select_blocks(prices, blocks, selected_hours, total_price, max_hours) ==
    IF blocks = <<>> THEN OptimalHours(selected_hours, total_price)
    ELSE IF Len(blocks) = 1
    THEN LET block == blocks[1]
             overlaps == Range(block.hours) \cap Range(selected_hours) # {}
         IN IF ~overlaps /\ Len(selected_hours) + Len(block.hours) <= max_hours
            THEN OptimalHours(selected_hours \o block.hours,
                              total_price + SumHours(prices, block.hours))
            ELSE OptimalHours(selected_hours, total_price)
    ELSE LET mid == Len(blocks) \div 2
             first == select_blocks(prices, SubSeq(blocks, 1, mid),
                                    selected_hours, total_price, max_hours)
         IN IF Len(first.hours) >= max_hours
            THEN first
            ELSE select_blocks(prices, SubSeq(blocks, mid + 1, Len(blocks)),
                               first.hours, first.total_price, max_hours)

calculate_continuous_blocks(prices, max_hours, min_continuous) ==
    IF Len(prices) < min_continuous THEN OptimalHours(<<>>, 0)
    ELSE LET available_hours == SortHours([i \in 1..Len(prices) |-> prices[i].hour])
             blocks == all_blocks(prices, available_hours, 1, min_continuous)
         IN IF blocks = <<>> THEN OptimalHours(<<>>, 0)
            ELSE LET picked == select_blocks(prices, SortBlocks(blocks), <<>>, 0, max_hours)
                 IN OptimalHours(SortHours(picked.hours), picked.total_price)

calculate_optimal_hours(prices, max_hours, min_continuous_hours, time_window_start, time_window_end) ==
    LET filtered_prices == filter_by_time_window(prices, time_window_start, time_window_end)
    IN IF filtered_prices = <<>> THEN OptimalHours(<<>>, 0)
       ELSE IF min_continuous_hours <= 1
            THEN calculate_scattered_hours(filtered_prices, max_hours)
            ELSE calculate_continuous_blocks(filtered_prices, max_hours, min_continuous_hours)

(***************************************************************************)
(* The selector applied to bounded inputs.                                 *)
(***************************************************************************)
VARIABLES sel_call, sel_filtered, sel_result, sel_pc

sel_vars == <<sel_call, sel_filtered, sel_result, sel_pc>>

\* the hours price lists are built from: a run of four, and the two last
\* hours of the day
HourUniverse == {0, 1, 2, 3, 22, 23}

RECURSIVE SetToSeq(_)
\* the hours of a set in ascending order
SetToSeq(S) ==
    IF S = {} THEN <<>>
    ELSE LET m == CHOOSE x \in S : \A y \in S : x <= y
         IN <<m>> \o SetToSeq(S \ {m})

\* a price list as the price source returns it: sorted by hour (pvpc.rs)
PriceList(f) ==
    LET hs == SetToSeq(DOMAIN f)
    IN [i \in 1..Len(hs) |-> [hour |-> hs[i], price |-> f[hs[i]]]]

\* window bounds: a whole hour and a time inside an hour
WindowTimes == {from_hms(2, 0, 0), from_hms(22, 30, 0)}
WindowBounds == {None} \cup {Some(t) : t \in WindowTimes}

MaxHoursValues == (1..MaxLen) \cup {24}

Call(prices, mh, mc, ws, we) ==
    [prices |-> prices, max_hours |-> mh, min_continuous_hours |-> mc,
     time_window_start |-> ws, time_window_end |-> we]

\* a full day: hours 0-5 cost 5 and every other hour costs 20
FullDay == [i \in 1..24 |-> [hour |-> i - 1, price |-> IF i - 1 <= 5 THEN 5 ELSE 20]]

\* the window 20:00-06:00 of a night rule
NightWindowBounds == {None, Some(from_hms(20, 0, 0)), Some(from_hms(6, 0, 0))}

\* every price list of at most MaxLen hours of HourUniverse, with every rule
BoundedCall(c) ==
    \E S \in SUBSET HourUniverse :
       /\ Cardinality(S) <= MaxLen
       /\ \E f \in [S -> 1..MaxPrice] :
          \E mh \in MaxHoursValues :
          \E mc \in 1..(IF mh < MaxLen THEN mh ELSE MaxLen) :
          \E ws \in WindowBounds :
          \E we \in WindowBounds :
             c = Call(PriceList(f), mh, mc, ws, we)

\* the full day, with a budget of 3 or 4 hours
FullDayCall(c) ==
    \E mh \in {3, 4} :
    \E mc \in {1, 2} :
    \E ws \in NightWindowBounds :
    \E we \in NightWindowBounds :
       c = Call(FullDay, mh, mc, ws, we)

(***************************************************************************)
(* The store, the clock, the price source and the rules.                   *)
(***************************************************************************)
VARIABLES
    now,                \* Local::now(): [date, time]
    published,          \* the last date whose prices the source has
    rules,              \* the rules table: rule id -> Rule
    scheduled_actions   \* the scheduled_actions table: a set of rows

env_vars == <<now, published>>
store_vars == <<rules, scheduled_actions>>

\* the last day the clock reaches
MaxDay == 1

\* the instants the clock takes within a day
ClockTimes == {from_hms(1, 0, 0), from_hms(20, 30, 0)}
FirstClockTime == from_hms(1, 0, 0)

RuleIds == {1}

Rule(id, mh, mc, ws, we, dow, en) ==
    [id |-> id, max_hours |-> mh, min_continuous_hours |-> mc,
     time_window_start |-> ws, time_window_end |-> we,
     days_of_week |-> dow, is_enabled |-> en]

\* DaysOfWeek::ALL_DAYS, the default of a new rule
ALL_DAYS == 127

\* the bit of a date's weekday; day 0 is a Monday
day_bit(date) ==
    LET weekday == date % 7
    IN CASE weekday = 0 -> 1
         [] weekday = 1 -> 2
         [] weekday = 2 -> 4
         [] weekday = 3 -> 8
         [] weekday = 4 -> 16
         [] weekday = 5 -> 32
         [] OTHER -> 64

\* (rule.days_of_week & day_bit) != 0, day_bit a power of two
includes_day(days_of_week, date) == (days_of_week \div day_bit(date)) % 2 = 1

\* what the price source holds for every date: three hours of the day
DayPrices ==
    <<[hour |-> 1, price |-> 1], [hour |-> 2, price |-> 2], [hour |-> 23, price |-> 1]>>

Ok(prices) == [ok |-> TRUE, prices |-> prices]
Err == [ok |-> FALSE, prices |-> <<>>]

\* fetch_prices_for_date: any request may fail; a date not yet published
\* has an empty list, a published one its prices
FetchResults(date) ==
    IF date > published THEN {Err, Ok(<<>>)} ELSE {Err, Ok(DayPrices)}

\* get_today_prices / get_tomorrow_prices read the clock themselves
get_today_prices == FetchResults(now.date)
get_tomorrow_prices == FetchResults(now.date + 1)

Action(rule_id, date, start_time, end_time, price, status) ==
    [rule_id |-> rule_id, scheduled_date |-> date, start_time |-> start_time,
     end_time |-> end_time, price_per_kwh |-> price, status |-> status]

SameKey(a, b) ==
    /\ a.rule_id = b.rule_id
    /\ a.scheduled_date = b.scheduled_date
    /\ a.start_time = b.start_time

\* an INSERT without its ON CONFLICT clause, on a table without the unique key
insert_action_no_conflict(table, row) == table \cup {row}

\* INSERT ... VALUES (..., 'pending') ON CONFLICT (rule_id, scheduled_date, start_time) DO NOTHING
insert_action(table, row) ==
    IF \E a \in table : SameKey(a, row) THEN table ELSE table \cup {row}

\* end_time of rules.rs and schedule.rs: 23:59:59 for hour 23
end_time_capped(hour) ==
    IF hour = 23 THEN from_hms(23, 59, 59) ELSE from_hms(hour + 1, 0, 0)

\* end_time of background_tasks.rs: the next hour, 00:00 for hour 23
end_time_wrapped(hour) == from_hms((hour + 1) % 24, 0, 0)

\* WHERE scheduled_date > $2 OR (scheduled_date = $2 AND start_time > $3)
starts_after(a, today, current_time) ==
    a.scheduled_date > today \/ (a.scheduled_date = today /\ a.start_time > current_time)

\* a DELETE that forgets the time: every pending row of the rule goes
delete_pending_any_time(table, rule_id, today, current_time) ==
    {a \in table : ~(a.rule_id = rule_id /\ a.status = "pending")}

\* an UPDATE to cancelled in the place of the DELETE
delete_future_pending_cancelling(table, rule_id, today, current_time) ==
    {IF a.rule_id = rule_id /\ a.status = "pending" /\ starts_after(a, today, current_time)
     THEN [a EXCEPT !.status = "cancelled"] ELSE a : a \in table}

\* DELETE FROM scheduled_actions WHERE rule_id = $1 AND status = 'pending' AND <starts after now>
delete_future_pending(table, rule_id, today, current_time) ==
    {a \in table : ~(/\ a.rule_id = rule_id
                     /\ a.status = "pending"
                     /\ starts_after(a, today, current_time))}

\* an UPDATE to cancelled that forgets the time
cancel_pending_any_time(table, rule_id, today, current_time) ==
    {IF a.rule_id = rule_id /\ a.status = "pending"
     THEN [a EXCEPT !.status = "cancelled"] ELSE a : a \in table}

\* UPDATE scheduled_actions SET status = 'cancelled' WHERE <the same condition>
cancel_future_pending(table, rule_id, today, current_time) ==
    {IF a.rule_id = rule_id /\ a.status = "pending" /\ starts_after(a, today, current_time)
     THEN [a EXCEPT !.status = "cancelled"] ELSE a : a \in table}

\* the hours calculate_optimal_hours selects for a rule
rule_hours(rule, prices) ==
    calculate_optimal_hours(prices, rule.max_hours, rule.min_continuous_hours,
                            rule.time_window_start, rule.time_window_end).hours

price_of(prices, hour) ==
    IF \E i \in 1..Len(prices) : prices[i].hour = hour
    THEN Some(PriceAt(prices, hour)) ELSE None

RECURSIVE rows_for_rule_and_date_any_day(_, _, _, _, _)
\* generate_schedules_for_rule_and_date without its weekday check
rows_for_rule_and_date_any_day(rule, prices, hours, date, min_time) ==
    IF hours = <<>> THEN <<>>
    ELSE LET hour == Head(hours)
             start_time == from_hms(hour, 0, 0)
             rest == rows_for_rule_and_date_any_day(rule, prices, Tail(hours), date, min_time)
         IN IF IsSome(min_time) /\ start_time <= Unwrap(min_time) THEN rest
            ELSE <<Action(rule.id, date, start_time, end_time_capped(hour),
                          price_of(prices, hour), "pending")>> \o rest

RECURSIVE rows_for_rule_and_date(_, _, _, _, _)
\* generate_schedules_for_rule_and_date (rules.rs): the rows it inserts, in
\* order, for the selected hours `hours`: none when the weekday is excluded,
\* and with a min_time only the hours that start after it
rows_for_rule_and_date(rule, prices, hours, date, min_time) ==
    IF ~includes_day(rule.days_of_week, date) \/ hours = <<>> THEN <<>>
    ELSE LET hour == Head(hours)
             start_time == from_hms(hour, 0, 0)
             rest == rows_for_rule_and_date(rule, prices, Tail(hours), date, min_time)
         IN IF IsSome(min_time) /\ start_time <= Unwrap(min_time) THEN rest
            ELSE <<Action(rule.id, date, start_time, end_time_capped(hour),
                          price_of(prices, hour), "pending")>> \o rest

RECURSIVE rows_forced(_, _, _, _)
\* the inner loop of generate_schedules_for_rules (schedule.rs), one rule
rows_forced(rule, prices, hours, date) ==
    IF ~includes_day(rule.days_of_week, date) \/ hours = <<>> THEN <<>>
    ELSE LET hour == Head(hours)
         IN <<Action(rule.id, date, from_hms(hour, 0, 0), end_time_capped(hour),
                     price_of(prices, hour), "pending")>>
            \o rows_forced(rule, prices, Tail(hours), date)

RECURSIVE rows_background(_, _, _, _)
\* the inner loop of generate_schedule_with_prices (background_tasks.rs), one rule
rows_background(rule, prices, hours, date) ==
    IF ~includes_day(rule.days_of_week, date) \/ hours = <<>> THEN <<>>
    ELSE LET hour == Head(hours)
         IN <<Action(rule.id, date, from_hms(hour, 0, 0), end_time_wrapped(hour),
                     price_of(prices, hour), "pending")>>
            \o rows_background(rule, prices, Tail(hours), date)

RECURSIVE generate_schedules_for_rules(_, _, _)
\* the rows generate_schedules_for_rules inserts, rule after rule
generate_schedules_for_rules(rule_list, prices, date) ==
    IF rule_list = <<>> THEN <<>>
    ELSE rows_forced(Head(rule_list), prices, rule_hours(Head(rule_list), prices), date)
         \o generate_schedules_for_rules(Tail(rule_list), prices, date)

RECURSIVE generate_schedule_with_prices(_, _, _)
\* the rows generate_schedule_with_prices inserts, rule after rule
generate_schedule_with_prices(rule_list, prices, date) ==
    IF rule_list = <<>> THEN <<>>
    ELSE rows_background(Head(rule_list), prices, rule_hours(Head(rule_list), prices), date)
         \o generate_schedule_with_prices(Tail(rule_list), prices, date)

\* SELECT * FROM rules WHERE is_enabled = true, in the order of the ids
enabled_rules ==
    LET ids == SetToSeq({id \in DOMAIN rules : rules[id].is_enabled})
    IN [i \in 1..Len(ids) |-> rules[ids[i]]]

RECURSIVE insert_all(_, _)
\* the INSERTs of one generate_schedules_for_rule_and_date call, in order
insert_all(table, rows) ==
    IF rows = <<>> THEN table
    ELSE insert_all(insert_action(table, Head(rows)), Tail(rows))

\* regenerate_schedules_for_rule run alone on `table` at the instant `at`,
\* the price source answering today_res and tomorrow_res
regenerate_schedules_for_rule(table, rule, at, today_res, tomorrow_res) ==
    LET deleted == delete_future_pending(table, rule.id, at.date, at.time)
        today_rows ==
            IF today_res.ok
            THEN rows_for_rule_and_date(rule, today_res.prices,
                     rule_hours(rule, today_res.prices), at.date, Some(at.time))
            ELSE <<>>
        tomorrow_rows ==
            IF tomorrow_res.ok /\ tomorrow_res.prices # <<>>
            THEN rows_for_rule_and_date(rule, tomorrow_res.prices,
                     rule_hours(rule, tomorrow_res.prices), at.date + 1, None)
            ELSE <<>>
    IN insert_all(insert_all(deleted, today_rows), tomorrow_rows)

(***************************************************************************)
(* PUT /api/rules/{id}: update_rule, then regenerate_schedules_for_rule    *)
(* or cancel_pending_schedules_for_rule.  Every store statement and every  *)
(* price fetch is one step.                                                *)
(***************************************************************************)
VARIABLES
    od_pc,          \* where the request is
    od_rule,        \* db_rule, the rule as updated
    od_now,         \* now of regenerate_schedules_for_rule
    od_todo,        \* the rows still to insert for the date at hand
    od_stats,       \* created_count, today_available, tomorrow_available
    updates_done,
    od_request,     \* the handler that runs: "create" or "update"
    od_response     \* the last HTTP response: its code and its schedule_info

od_vars == <<od_pc, od_rule, od_now, od_todo, od_stats, updates_done,
             od_request, od_response>>

\* how many rule updates are made
MaxUpdates == 2

NoRule == Rule(0, 0, 0, None, None, 0, FALSE)
NoTime == [date |-> 0, time |-> 0]
NoStats == [created_count |-> 0, today_available |-> FALSE, tomorrow_available |-> FALSE]

\* an HTTP response of create_rule or update_rule: the code, and what its
\* schedule_info holds: "none" for None, "regenerated" for the info of
\* regenerate_schedules_for_rule, "cancelled" for the message of a disabled rule
Response(code, info) == [code |-> code, schedule_info |-> info]
NoResponse == Response("none", "none")

\* HttpResponse::Created of create_rule, HttpResponse::Ok of update_rule
success_code(request) == IF request = "create" THEN "created" ELSE "ok"

\* the rules a user updates, and what an update sets
UpdatableRules == {1}
RuleConfigs ==
    {Rule(id, 2, 1, None, None, ALL_DAYS, en) : id \in UpdatableRules, en \in BOOLEAN}
    \cup {Rule(id, 2, 1, None, None, ALL_DAYS - 2, TRUE) : id \in UpdatableRules}

\* UPDATE rules SET ... WHERE id = $8 RETURNING *
UpdateRule ==
    /\ od_pc = "idle"
    /\ updates_done < MaxUpdates
    /\ \E updated \in RuleConfigs :
          /\ updated.id \in DOMAIN rules
          /\ rules' = [rules EXCEPT ![updated.id] = updated]
          /\ od_rule' = updated
          /\ od_pc' = IF updated.is_enabled THEN "regen_delete" ELSE "cancel"
    /\ updates_done' = updates_done + 1
    /\ od_request' = "update"
    /\ od_response' = NoResponse
    /\ UNCHANGED <<scheduled_actions, od_now, od_todo, od_stats>>

\* regenerate_schedules_for_rule: now is read, then the DELETE runs
RegenDelete ==
    /\ od_pc = "regen_delete"
    /\ od_now' = now
    /\ scheduled_actions' =
          delete_future_pending(scheduled_actions, od_rule.id, now.date, now.time)
    /\ od_stats' = NoStats
    /\ od_pc' = "fetch_today"
    /\ UNCHANGED <<rules, od_rule, od_todo, updates_done, od_request, od_response>>

\* pvpc.get_today_prices().await?, the error of the price source returned
RegenFetchToday_propagating ==
    /\ od_pc = "fetch_today"
    /\ \E res \in get_today_prices :
          IF res.ok
          THEN LET todo == rows_for_rule_and_date(od_rule, res.prices,
                              rule_hours(od_rule, res.prices), od_now.date, Some(od_now.time))
               IN /\ od_stats' = [od_stats EXCEPT !.today_available = (res.prices # <<>>)]
                  /\ od_todo' = todo
                  /\ od_pc' = IF todo = <<>> THEN "fetch_tomorrow" ELSE "insert_today"
                  /\ UNCHANGED <<od_rule, od_now, od_request, od_response>>
          ELSE /\ od_pc' = "idle"
               /\ od_rule' = NoRule
               /\ od_now' = NoTime
               /\ od_stats' = NoStats
               /\ od_response' = Response(success_code(od_request), "none")
               /\ od_request' = "none"
               /\ UNCHANGED od_todo
    /\ UNCHANGED <<store_vars, updates_done>>

\* match pvpc.get_today_prices().await
RegenFetchToday ==
    /\ od_pc = "fetch_today"
    /\ \E res \in get_today_prices :
          IF res.ok
          THEN LET todo == rows_for_rule_and_date(od_rule, res.prices,
                              rule_hours(od_rule, res.prices), od_now.date, Some(od_now.time))
               IN /\ od_stats' = [od_stats EXCEPT !.today_available = (res.prices # <<>>)]
                  /\ od_todo' = todo
                  /\ od_pc' = IF todo = <<>> THEN "fetch_tomorrow" ELSE "insert_today"
          ELSE /\ od_pc' = "fetch_tomorrow"
               /\ UNCHANGED <<od_stats, od_todo>>
    /\ UNCHANGED <<store_vars, od_rule, od_now, updates_done, od_request, od_response>>

\* one INSERT of generate_schedules_for_rule_and_date
RegenInsert ==
    /\ od_pc \in {"insert_today", "insert_tomorrow"}
    /\ LET row == Head(od_todo)
           table == insert_action(scheduled_actions, row)
       IN /\ scheduled_actions' = table
          /\ od_stats' = IF table # scheduled_actions
                         THEN [od_stats EXCEPT !.created_count = @ + 1] ELSE od_stats
    /\ od_todo' = Tail(od_todo)
    /\ od_pc' = IF Tail(od_todo) # <<>> THEN od_pc
                ELSE IF od_pc = "insert_today" THEN "fetch_tomorrow" ELSE "respond"
    /\ UNCHANGED <<rules, od_rule, od_now, updates_done, od_request, od_response>>

\* match pvpc.get_tomorrow_prices().await
RegenFetchTomorrow ==
    /\ od_pc = "fetch_tomorrow"
    /\ \E res \in get_tomorrow_prices :
          IF res.ok /\ res.prices # <<>>
          THEN LET todo == rows_for_rule_and_date(od_rule, res.prices,
                              rule_hours(od_rule, res.prices), od_now.date + 1, None)
               IN /\ od_stats' = [od_stats EXCEPT !.tomorrow_available = TRUE]
                  /\ od_todo' = todo
                  /\ od_pc' = IF todo = <<>> THEN "respond" ELSE "insert_tomorrow"
          ELSE /\ od_pc' = "respond"
               /\ UNCHANGED <<od_stats, od_todo>>
    /\ UNCHANGED <<store_vars, od_rule, od_now, updates_done, od_request, od_response>>

\* the message of the ScheduleGenerationInfo
regenerate_message(stats) ==
    IF stats.created_count > 0 THEN "created"
    ELSE IF stats.today_available /\ ~stats.tomorrow_available THEN "today passed, tomorrow at 20:30"
    ELSE IF ~stats.today_available /\ ~stats.tomorrow_available THEN "prices not yet available"
    ELSE "none generated"

\* the ScheduleGenerationInfo regenerate_schedules_for_rule returns
schedule_info(stats) ==
    [schedules_created |-> stats.created_count, message |-> regenerate_message(stats)]

\* Ok(ScheduleGenerationInfo { .. }) and the response of update_rule, which
\* carries schedule_info(od_stats)
RegenRespond ==
    /\ od_pc = "respond"
    /\ od_pc' = "idle"
    /\ od_rule' = NoRule
    /\ od_now' = NoTime
    /\ od_stats' = NoStats
    /\ od_response' = Response(success_code(od_request), "regenerated")
    /\ od_request' = "none"
    /\ UNCHANGED <<store_vars, od_todo, updates_done>>

\* cancel_pending_schedules_for_rule and the response of update_rule
CancelPending ==
    /\ od_pc = "cancel"
    /\ scheduled_actions' =
          cancel_future_pending(scheduled_actions, od_rule.id, now.date, now.time)
    /\ od_pc' = "idle"
    /\ od_rule' = NoRule
    /\ od_response' = Response("ok", "cancelled")
    /\ od_request' = "none"
    /\ UNCHANGED <<rules, od_now, od_todo, od_stats, updates_done>>

(***************************************************************************)
(* POST /api/rules and PUT /api/rules/{id} with any request body, and the   *)
(* store failing under a request.                                          *)
(***************************************************************************)
\* the ids a new rule may get
NewRuleIds == {2}

\* the hour counts a request body may carry: below, inside and above 1..24
RequestHours == {0, 2, 25}
\* the run lengths a request body may carry
RequestMinContinuous == {0, 1, 3}

OptionOf(S) == {None} \cup {Some(x) : x \in S}

\* Option::unwrap_or
unwrap_or(o, default) == IF IsSome(o) THEN Unwrap(o) ELSE default

\* CreateRuleRequest: max_hours, and min_continuous_hours if given
CreateBodies ==
    [max_hours : RequestHours, min_continuous_hours : OptionOf(RequestMinContinuous)]

\* UpdateRuleRequest: every field is optional
UpdateBodies ==
    [max_hours : OptionOf(RequestHours),
     min_continuous_hours : OptionOf(RequestMinContinuous),
     is_enabled : OptionOf(BOOLEAN)]

\* is_enabled of an inserted rule is the default of the column
IsEnabledDefaults == BOOLEAN

\* the two checks of create_rule
create_rule_valid(max_hours, min_continuous) ==
    /\ ~(max_hours < 1 \/ max_hours > 24)
    /\ ~(min_continuous < 1 \/ min_continuous > max_hours)

\* create_rule up to its INSERT: a body that fails a check is answered with
\* BadRequest; otherwise the rule is inserted and its schedules are regenerated
CreateRule ==
    /\ od_pc = "idle"
    /\ NewRuleIds \ DOMAIN rules # {}
    /\ \E body \in CreateBodies :
          LET min_continuous == unwrap_or(body.min_continuous_hours, 1)
          IN IF ~create_rule_valid(body.max_hours, min_continuous)
             THEN /\ od_response' = Response("bad_request", "none")
                  /\ UNCHANGED <<rules, od_pc, od_rule, od_request>>
             ELSE \E id \in NewRuleIds \ DOMAIN rules, en \in IsEnabledDefaults :
                     LET rule == Rule(id, body.max_hours, min_continuous,
                                      None, None, ALL_DAYS, en)
                     IN /\ rules' = [i \in DOMAIN rules \cup {id} |->
                                        IF i = id THEN rule ELSE rules[i]]
                        /\ od_rule' = rule
                        /\ od_pc' = "regen_delete"
                        /\ od_request' = "create"
                        /\ od_response' = NoResponse
    /\ UNCHANGED <<scheduled_actions, od_now, od_todo, od_stats, updates_done>>

\* update_rule up to its UPDATE, the body holding any values: each field of
\* the body replaces the existing one, and the row is written as it is
UpdateRuleFields ==
    /\ od_pc = "idle"
    /\ updates_done < MaxUpdates
    /\ \E rule_id \in DOMAIN rules, body \in UpdateBodies :
          LET existing == rules[rule_id]
              updated == [existing EXCEPT
                  !.max_hours = unwrap_or(body.max_hours, existing.max_hours),
                  !.min_continuous_hours =
                      unwrap_or(body.min_continuous_hours, existing.min_continuous_hours),
                  !.is_enabled = unwrap_or(body.is_enabled, existing.is_enabled)]
          IN /\ rules' = [rules EXCEPT ![rule_id] = updated]
             /\ od_rule' = updated
             /\ od_pc' = IF updated.is_enabled THEN "regen_delete" ELSE "cancel"
    /\ updates_done' = updates_done + 1
    /\ od_request' = "update"
    /\ od_response' = NoResponse
    /\ UNCHANGED <<scheduled_actions, od_now, od_todo, od_stats>>

\* the INSERT or the UPDATE of the rule fails: `?` returns the error
RuleWriteErr ==
    /\ od_pc = "idle"
    /\ od_response' = Response("error", "none")
    /\ UNCHANGED <<store_vars, od_pc, od_rule, od_now, od_todo, od_stats,
                   updates_done, od_request>>

\* regenerate_schedules_for_rule returned Err: the handler logs it and
\* answers with its success code and no schedule_info
RegenFailed ==
    /\ od_pc' = "idle"
    /\ od_rule' = NoRule
    /\ od_now' = NoTime
    /\ od_todo' = <<>>
    /\ od_stats' = NoStats
    /\ od_response' = Response(success_code(od_request), "none")
    /\ od_request' = "none"
    /\ UNCHANGED <<store_vars, updates_done>>

\* the DELETE of regenerate_schedules_for_rule fails
RegenDeleteErr ==
    /\ od_pc = "regen_delete"
    /\ RegenFailed

\* an INSERT of generate_schedules_for_rule_and_date fails: the rows deleted
\* and the rows inserted so far stay as they are
RegenInsertErr ==
    /\ od_pc \in {"insert_today", "insert_tomorrow"}
    /\ RegenFailed

\* the UPDATE of cancel_pending_schedules_for_rule fails: unwrap_or(0)
CancelPendingErr ==
    /\ od_pc = "cancel"
    /\ od_pc' = "idle"
    /\ od_rule' = NoRule
    /\ od_response' = Response("ok", "cancelled")
    /\ od_request' = "none"
    /\ UNCHANGED <<store_vars, od_now, od_todo, od_stats, updates_done>>

\* the requests with any body
RuleRequests ==
    \/ CreateRule
    \/ UpdateRuleFields
    \/ RegenDelete
    \/ RegenFetchToday
    \/ RegenInsert
    \/ RegenFetchTomorrow
    \/ RegenRespond
    \/ CancelPending

RuleRequestFailures ==
    \/ RuleWriteErr
    \/ RegenDeleteErr
    \/ RegenInsertErr
    \/ CancelPendingErr

OnDemand ==
    \/ UpdateRule
    \/ RegenDelete
    \/ RegenFetchToday
    \/ RegenInsert
    \/ RegenFetchTomorrow
    \/ RegenRespond
    \/ CancelPending

(***************************************************************************)
(* POST /api/schedule/generate: generate_schedule_now.                     *)
(***************************************************************************)
VARIABLES
    fg_pc,          \* where the request is
    fg_today,       \* today, as read at the start
    fg_rules,       \* the enabled rules, as selected at the start
    fg_todo,        \* the rows still to insert for the date at hand
    forced_done

fg_vars == <<fg_pc, fg_today, fg_rules, fg_todo, forced_done>>

\* how many forced generations are requested
MaxForced == 1

\* today is read and the enabled rules are selected
ForcedStart ==
    /\ fg_pc = "idle"
    /\ forced_done < MaxForced
    /\ fg_today' = now.date
    /\ fg_rules' = enabled_rules
    /\ fg_pc' = "fetch_today"
    /\ forced_done' = forced_done + 1
    /\ UNCHANGED <<store_vars, fg_todo>>

\* if let Ok(prices_today) = pvpc.get_today_prices().await
ForcedFetchToday ==
    /\ fg_pc = "fetch_today"
    /\ \E res \in get_today_prices :
          LET todo == IF res.ok
                      THEN generate_schedules_for_rules(fg_rules, res.prices, fg_today)
                      ELSE <<>>
          IN /\ fg_todo' = todo
             /\ fg_pc' = IF todo = <<>> THEN "fetch_tomorrow" ELSE "insert_today"
    /\ UNCHANGED <<store_vars, fg_today, fg_rules, forced_done>>

\* one INSERT of generate_schedules_for_rules
ForcedInsert ==
    /\ fg_pc \in {"insert_today", "insert_tomorrow"}
    /\ scheduled_actions' = insert_action(scheduled_actions, Head(fg_todo))
    /\ fg_todo' = Tail(fg_todo)
    /\ IF Tail(fg_todo) # <<>> \/ fg_pc = "insert_today"
       THEN /\ fg_pc' = IF Tail(fg_todo) # <<>> THEN fg_pc ELSE "fetch_tomorrow"
            /\ UNCHANGED <<fg_today, fg_rules>>
       ELSE /\ fg_pc' = "idle"
            /\ fg_today' = 0
            /\ fg_rules' = <<>>
    /\ UNCHANGED <<rules, forced_done>>

\* if let Ok(prices_tomorrow) = pvpc.get_tomorrow_prices().await, not empty
ForcedFetchTomorrow ==
    /\ fg_pc = "fetch_tomorrow"
    /\ \E res \in get_tomorrow_prices :
          LET todo == IF res.ok /\ res.prices # <<>>
                      THEN generate_schedules_for_rules(fg_rules, res.prices, fg_today + 1)
                      ELSE <<>>
          IN /\ fg_todo' = todo
             /\ IF todo = <<>>
                THEN /\ fg_pc' = "idle"
                     /\ fg_today' = 0
                     /\ fg_rules' = <<>>
                ELSE /\ fg_pc' = "insert_tomorrow"
                     /\ UNCHANGED <<fg_today, fg_rules>>
    /\ UNCHANGED <<store_vars, forced_done>>

Forced ==
    \/ ForcedStart
    \/ ForcedFetchToday
    \/ ForcedInsert
    \/ ForcedFetchTomorrow

(***************************************************************************)
(* background_tasks.rs, task 1: check_and_generate_today_schedules, then   *)
(* run_daily_scheduler.                                                    *)
(***************************************************************************)
VARIABLES
    bg_pc,                  \* where the task is
    bg_phase,               \* which caller generate_schedules_for_date has
    bg_now,                 \* now, as read by the caller
    bg_date,                \* the date generate_schedules_for_date is given
    bg_prices,              \* the prices it fetched
    bg_todo,                \* the rows still to insert
    last_generation_date,   \* Option<NaiveDate>
    retry_pending,
    last_retry,             \* Option<DateTime>
    bg_result               \* what run_daily_scheduler last matched: "ok" or "err"

bg_vars == <<bg_pc, bg_phase, bg_now, bg_date, bg_prices, bg_todo,
             last_generation_date, retry_pending, last_retry, bg_result>>

SCHEDULE_GENERATION_HOUR == 20
SCHEDULE_GENERATION_MINUTE == 30
RETRY_INTERVAL_MINUTES == 30

\* Timelike::minute
minute_of(t) == (t % 3600) \div 60

\* a duration rounded to the nearest minute
minutes_since_rounded(t, last) ==
    ((t.date - last.date) * 86400 + (t.time - last.time) + 30) \div 60

\* now.signed_duration_since(last).num_minutes()
minutes_since(t, last) ==
    ((t.date - last.date) * 86400 + (t.time - last.time)) \div 60

\* SELECT COUNT(*) FROM scheduled_actions WHERE scheduled_date = $1
count_for_date(date) == Cardinality({a \in scheduled_actions : a.scheduled_date = date})

\* generate_schedules_for_date has returned: the caller goes on.  After the
\* backfill the interval of run_daily_scheduler is created, whose first tick
\* is immediate.
BgReturn(ok) ==
    /\ bg_todo' = <<>>
    /\ bg_prices' = <<>>
    /\ IF bg_phase = "backfill_today"
       THEN /\ bg_pc' = "backfill_tomorrow"
            /\ UNCHANGED <<bg_now, last_generation_date, retry_pending, last_retry, bg_result>>
       ELSE IF bg_phase = "backfill_tomorrow"
       THEN /\ bg_pc' = "wait"
            /\ bg_now' = NoTime
            /\ UNCHANGED <<last_generation_date, retry_pending, last_retry, bg_result>>
       ELSE /\ bg_pc' = "wait"
            /\ UNCHANGED bg_now
            /\ bg_result' = IF ok THEN "ok" ELSE "err"
            /\ IF ok
               THEN /\ last_generation_date' = Some(bg_date)
                    /\ retry_pending' = FALSE
                    /\ last_retry' = None
               ELSE /\ retry_pending' = TRUE
                    /\ last_retry' = Some(bg_now)
                    /\ UNCHANGED last_generation_date

\* check_and_generate_today_schedules: now is read and today's rows are counted
BackfillToday ==
    /\ bg_pc = "backfill_today"
    /\ bg_now' = now
    /\ IF count_for_date(now.date) > 0
       THEN /\ bg_pc' = "backfill_tomorrow"
            /\ UNCHANGED <<bg_phase, bg_date>>
       ELSE /\ bg_pc' = "fetch"
            /\ bg_phase' = "backfill_today"
            /\ bg_date' = now.date
    /\ UNCHANGED <<store_vars, bg_prices, bg_todo, last_generation_date,
                   retry_pending, last_retry, bg_result>>

\* tomorrow's rows are counted once it is 20:30 or later
BackfillTomorrow ==
    /\ bg_pc = "backfill_tomorrow"
    /\ LET is_after_schedule_time ==
              \/ hour_of(bg_now.time) > SCHEDULE_GENERATION_HOUR
              \/ /\ hour_of(bg_now.time) = SCHEDULE_GENERATION_HOUR
                 /\ minute_of(bg_now.time) >= SCHEDULE_GENERATION_MINUTE
       IN IF is_after_schedule_time /\ count_for_date(bg_now.date + 1) = 0
          THEN /\ bg_pc' = "fetch"
               /\ bg_phase' = "backfill_tomorrow"
               /\ bg_date' = bg_now.date + 1
               /\ UNCHANGED bg_now
          ELSE /\ bg_pc' = "wait"
               /\ bg_phase' = "daily"
               /\ bg_date' = 0
               /\ bg_now' = NoTime
    /\ UNCHANGED <<store_vars, bg_prices, bg_todo, last_generation_date,
                   retry_pending, last_retry, bg_result>>

\* a comparison with today in the place of tomorrow
already_generated_for_today(tomorrow) == last_generation_date = Some(tomorrow - 1)

\* let already_generated_today = last_generation_date == Some(tomorrow)
already_generated_today(tomorrow) == last_generation_date = Some(tomorrow)

\* one tick of run_daily_scheduler; the interval ticks once at an instant
DailyTick ==
    /\ bg_pc = "wait"
    /\ bg_now # now
    /\ bg_now' = now
    /\ bg_phase' = "daily"
    /\ LET tomorrow == now.date + 1
           is_schedule_time ==
              /\ hour_of(now.time) = SCHEDULE_GENERATION_HOUR
              /\ minute_of(now.time) >= SCHEDULE_GENERATION_MINUTE
              /\ minute_of(now.time) < SCHEDULE_GENERATION_MINUTE + 1
           should_retry ==
              /\ retry_pending
              /\ (IsSome(last_retry) =>
                     minutes_since(now, Unwrap(last_retry)) >= RETRY_INTERVAL_MINUTES)
       IN IF (is_schedule_time /\ ~already_generated_today(tomorrow)) \/ should_retry
          THEN /\ bg_pc' = "fetch"
               /\ bg_date' = tomorrow
          ELSE /\ bg_pc' = "wait"
               /\ bg_date' = 0
    /\ UNCHANGED <<store_vars, bg_prices, bg_todo, last_generation_date,
                   retry_pending, last_retry, bg_result>>

\* generate_schedules_for_date: the prices of the date are fetched
GenFetch ==
    /\ bg_pc = "fetch"
    /\ LET today == now.date
           results == IF bg_date = today THEN get_today_prices
                      ELSE IF bg_date = today + 1 THEN get_tomorrow_prices
                      ELSE FetchResults(bg_date)
       IN \E res \in results :
             IF res.ok
             THEN /\ bg_prices' = res.prices
                  /\ bg_pc' = "rules"
                  /\ UNCHANGED <<bg_now, bg_todo, last_generation_date,
                                 retry_pending, last_retry, bg_result>>
             ELSE BgReturn(FALSE)
    /\ UNCHANGED <<store_vars, bg_phase, bg_date>>

\* generate_schedule_with_prices: the enabled rules are selected
GenRules ==
    /\ bg_pc = "rules"
    /\ LET todo == generate_schedule_with_prices(enabled_rules, bg_prices, bg_date)
       IN IF todo = <<>>
          THEN BgReturn(TRUE)
          ELSE /\ bg_todo' = todo
               /\ bg_pc' = "insert"
               /\ UNCHANGED <<bg_now, bg_prices, last_generation_date,
                              retry_pending, last_retry, bg_result>>
    /\ UNCHANGED <<store_vars, bg_phase, bg_date>>

\* one INSERT of generate_schedule_with_prices
GenInsert ==
    /\ bg_pc = "insert"
    /\ scheduled_actions' = insert_action(scheduled_actions, Head(bg_todo))
    /\ IF Tail(bg_todo) = <<>>
       THEN BgReturn(TRUE)
       ELSE /\ bg_todo' = Tail(bg_todo)
            /\ UNCHANGED <<bg_pc, bg_now, bg_prices, last_generation_date,
                           retry_pending, last_retry, bg_result>>
    /\ UNCHANGED <<rules, bg_phase, bg_date>>

\* the COUNT of today's rows fails: unwrap_or(0), the generation is tried
BackfillTodayCountErr ==
    /\ bg_pc = "backfill_today"
    /\ bg_now' = now
    /\ bg_pc' = "fetch"
    /\ bg_phase' = "backfill_today"
    /\ bg_date' = now.date
    /\ UNCHANGED <<store_vars, bg_prices, bg_todo, last_generation_date,
                   retry_pending, last_retry, bg_result>>

\* the COUNT of tomorrow's rows fails, at 20:30 or later
BackfillTomorrowCountErr ==
    /\ bg_pc = "backfill_tomorrow"
    /\ \/ hour_of(bg_now.time) > SCHEDULE_GENERATION_HOUR
       \/ /\ hour_of(bg_now.time) = SCHEDULE_GENERATION_HOUR
          /\ minute_of(bg_now.time) >= SCHEDULE_GENERATION_MINUTE
    /\ bg_pc' = "fetch"
    /\ bg_phase' = "backfill_tomorrow"
    /\ bg_date' = bg_now.date + 1
    /\ UNCHANGED <<store_vars, bg_now, bg_prices, bg_todo, last_generation_date,
                   retry_pending, last_retry, bg_result>>

\* the SELECT of the rules or an INSERT fails: generate_schedule_with_prices
\* returns Err through `?`, generate_schedules_for_date maps it, the caller
\* logs it
GenStoreErr ==
    /\ bg_pc \in {"rules", "insert"}
    /\ BgReturn(FALSE)
    /\ UNCHANGED <<store_vars, bg_phase, bg_date>>

BackgroundFailures ==
    \/ BackfillTodayCountErr
    \/ BackfillTomorrowCountErr
    \/ GenStoreErr

Background ==
    \/ BackfillToday
    \/ BackfillTomorrow
    \/ DailyTick
    \/ GenFetch
    \/ GenRules
    \/ GenInsert

(***************************************************************************)
(* The environment: the clock and the price source.                        *)
(***************************************************************************)
\* time passes within the day
ClockAdvance ==
    /\ \E t \in ClockTimes : t > now.time /\ now' = [now EXCEPT !.time = t]
    /\ UNCHANGED published

\* midnight passes; the prices of a day exist before the day begins
NextDay ==
    /\ now.date < MaxDay
    /\ now' = [date |-> now.date + 1, time |-> FirstClockTime]
    /\ published' = IF published > now.date THEN published ELSE now.date + 1

\* tomorrow's prices are published, up to the last day
Publish ==
    /\ published <= now.date
    /\ now.date < MaxDay
    /\ published' = now.date + 1
    /\ UNCHANGED now

Environment ==
    \/ ClockAdvance
    \/ NextDay
    \/ Publish

\* the instants the clock takes around the generation minute
DailyClockTimes ==
    {from_hms(20, 30, 0), from_hms(20, 30, 30), from_hms(20, 45, 0),
     from_hms(21, 0, 0), from_hms(21, 0, 30)}

DailyClockAdvance ==
    /\ \E t \in DailyClockTimes : t > now.time /\ now' = [now EXCEPT !.time = t]
    /\ UNCHANGED published

DailyEnvironment ==
    \/ DailyClockAdvance
    \/ NextDay
    \/ Publish

(***************************************************************************)
(* background_tasks.rs, task 2: run_expired_actions_checker.               *)
(***************************************************************************)
VARIABLES
    sw_pc,      \* where the task is
    sw_now,     \* now, as read by mark_expired_actions_as_missed
    sw_result   \* what the last pass returned to the loop: "ok" or "err"

sw_vars == <<sw_pc, sw_now, sw_result>>

\* a first UPDATE that forgets status = 'pending'
mark_expired_today_any_status(table, today, current_time) ==
    {IF /\ a.scheduled_date = today
        /\ a.end_time > a.start_time
        /\ a.end_time <= current_time
     THEN [a EXCEPT !.status = "missed"] ELSE a : a \in table}

\* UPDATE scheduled_actions SET status = 'missed' WHERE status = 'pending'
\*   AND scheduled_date = $1 AND end_time > start_time AND end_time <= $2
mark_expired_today(table, today, current_time) ==
    {IF /\ a.status = "pending"
        /\ a.scheduled_date = today
        /\ a.end_time > a.start_time
        /\ a.end_time <= current_time
     THEN [a EXCEPT !.status = "missed"] ELSE a : a \in table}

\* a second UPDATE that leaves yesterday out
mark_expired_old_before_yesterday(table, today) ==
    {IF a.status = "pending" /\ a.scheduled_date < today - 1
     THEN [a EXCEPT !.status = "missed"] ELSE a : a \in table}

\* a second UPDATE that takes today in
mark_expired_old_and_today(table, today) ==
    {IF a.status = "pending" /\ a.scheduled_date <= today
     THEN [a EXCEPT !.status = "missed"] ELSE a : a \in table}

\* a second UPDATE that keeps the test end_time > start_time of the first
mark_expired_old_unwrapped(table, today) ==
    {IF a.status = "pending" /\ a.scheduled_date < today /\ a.end_time > a.start_time
     THEN [a EXCEPT !.status = "missed"] ELSE a : a \in table}

\* UPDATE scheduled_actions SET status = 'missed' WHERE status = 'pending'
\*   AND scheduled_date < $1
mark_expired_old(table, today) ==
    {IF a.status = "pending" /\ a.scheduled_date < today
     THEN [a EXCEPT !.status = "missed"] ELSE a : a \in table}

\* a pass of mark_expired_actions_as_missed that meets no error
mark_expired_actions_as_missed(table, at) ==
    mark_expired_old(mark_expired_today(table, at.date, at.time), at.date)

\* check_interval.tick(), then now is read; the interval ticks once at an
\* instant and its first tick is immediate
SweepTick ==
    /\ sw_pc = "wait"
    /\ sw_now # now
    /\ sw_now' = now
    /\ sw_pc' = "mark_today"
    /\ UNCHANGED <<store_vars, sw_result>>

\* a loop that returns the error of a pass: `?` in the place of `if let Err`
SweepToday_propagating ==
    /\ sw_pc = "mark_today"
    /\ \/ /\ scheduled_actions' =
                mark_expired_today(scheduled_actions, sw_now.date, sw_now.time)
          /\ sw_pc' = "mark_old"
          /\ UNCHANGED sw_result
       \/ /\ sw_pc' = "returned"
          /\ sw_result' = "err"
          /\ UNCHANGED scheduled_actions
    /\ UNCHANGED <<rules, sw_now>>

\* the first UPDATE; on Err the pass ends, the error is logged by the loop
SweepToday ==
    /\ sw_pc = "mark_today"
    /\ \/ /\ scheduled_actions' =
                mark_expired_today(scheduled_actions, sw_now.date, sw_now.time)
          /\ sw_pc' = "mark_old"
          /\ UNCHANGED sw_result
       \/ /\ sw_pc' = "wait"
          /\ sw_result' = "err"
          /\ UNCHANGED scheduled_actions
    /\ UNCHANGED <<rules, sw_now>>

\* the second UPDATE; Ok(()) or Err, the loop awaits its next tick
SweepOld ==
    /\ sw_pc = "mark_old"
    /\ \/ /\ scheduled_actions' = mark_expired_old(scheduled_actions, sw_now.date)
          /\ sw_result' = "ok"
       \/ /\ sw_result' = "err"
          /\ UNCHANGED scheduled_actions
    /\ sw_pc' = "wait"
    /\ UNCHANGED <<rules, sw_now>>

Sweep ==
    \/ SweepTick
    \/ SweepToday
    \/ SweepOld

(***************************************************************************)
(* PATCH /api/schedule/{id}/status: update_schedule_status.                *)
(***************************************************************************)
VARIABLES
    st_request,     \* the last request: whether the id it names is the id of
                    \* a row, whether that row is of a rule of the user it
                    \* comes from, and the status it carries
    st_response,    \* and its response
    status_done     \* how many requests were made

st_vars == <<st_request, st_response, status_done>>

\* how many status requests are made
MaxStatusUpdates == 2

\* the users; every rule is on a device of the first
Users == {1, 2}
rule_user(rule_id) == 1

\* the status strings a request body carries
StatusValues == {"executed", "failed", "cancelled", "pending", "missed"}

valid_statuses == {"executed", "failed", "cancelled", "pending"}

\* the rows a request names by id: the rows of the table, and a row that is
\* not in it
NoAction == Action(0, 0, 0, 0, 0, "none")
NoRequest == [found |-> FALSE, owned |-> FALSE, status |-> "none"]

\* UPDATE scheduled_actions sa SET status = $1 FROM rules r JOIN devices d ...
\* WHERE sa.id = $2 AND sa.rule_id = r.id AND d.user_id = $3
set_status(table, action, status, user) ==
    {IF a = action /\ a.rule_id \in DOMAIN rules /\ rule_user(a.rule_id) = user
     THEN [a EXCEPT !.status = status] ELSE a : a \in table}

\* the request is validated, the UPDATE runs, the response follows
\* rows_affected
UpdateScheduleStatus ==
    /\ status_done < MaxStatusUpdates
    /\ status_done' = status_done + 1
    /\ \E action \in scheduled_actions \cup {NoAction}, status \in StatusValues,
          user \in Users :
          /\ st_request' = [found |-> action \in scheduled_actions,
                            owned |-> /\ action.rule_id \in DOMAIN rules
                                      /\ rule_user(action.rule_id) = user,
                            status |-> status]
          /\ IF status \notin valid_statuses
             THEN /\ st_response' = "bad_request"
                  /\ UNCHANGED scheduled_actions
             ELSE LET table == set_status(scheduled_actions, action, status, user)
                      rows_affected ==
                         Cardinality({a \in scheduled_actions :
                             /\ a = action
                             /\ a.rule_id \in DOMAIN rules
                             /\ rule_user(a.rule_id) = user})
                  IN /\ scheduled_actions' = table
                     /\ st_response' = IF rows_affected = 0 THEN "not_found" ELSE "ok"
    /\ UNCHANGED rules

(***************************************************************************)
(* DELETE /api/rules/{id}: delete_rule.  The handler deletes the row of    *)
(* the rules table and nothing else; what the store then does with the     *)
(* rule's scheduled_actions is the foreign key's choice: it deletes them,  *)
(* it refuses the DELETE while there are any, or it keeps them.            *)
(***************************************************************************)
VARIABLES
    dr_response     \* the response of the last delete_rule

dr_vars == <<dr_response>>

OnDeleteChoices == {"cascade", "restrict", "keep"}

\* DELETE FROM rules WHERE id = $1 AND device_id IN (...); the requests for
\* one rule are made one after the other
DeleteRule ==
    /\ od_pc = "idle"
    /\ \E rule_id \in RuleIds, on_delete \in OnDeleteChoices :
          LET owned == {a \in scheduled_actions : a.rule_id = rule_id}
          IN IF rule_id \notin DOMAIN rules
             THEN /\ dr_response' = "not_found"
                  /\ UNCHANGED store_vars
             ELSE IF on_delete = "restrict" /\ owned # {}
             THEN /\ dr_response' = "error"
                  /\ UNCHANGED store_vars
             ELSE /\ dr_response' = "no_content"
                  /\ rules' = [id \in DOMAIN rules \ {rule_id} |-> rules[id]]
                  /\ scheduled_actions' =
                        IF on_delete = "cascade" THEN scheduled_actions \ owned
                        ELSE scheduled_actions

(***************************************************************************)
(* Two calls on one rule at one instant: a regenerate_schedules_for_rule   *)
(* of a request, and beside it a second one or a generate_schedule_with_   *)
(* prices of the background task.  Both get the same answers of the price  *)
(* source; every store statement is one step.                              *)
(***************************************************************************)
VARIABLES
    cr_kind,        \* what each call is: "on_demand" or "background"
    cr_date,        \* the date generate_schedules_for_date is given
    cr_pc,          \* where each call is
    cr_todo,        \* the rows each call has still to insert
    cr_today,       \* the answer of get_today_prices
    cr_tomorrow,    \* the answer of get_tomorrow_prices
    cr_initial      \* history: the table as the two calls found it

cr_vars == <<cr_kind, cr_date, cr_pc, cr_todo, cr_today, cr_tomorrow, cr_initial>>

\* the two calls
Calls == {1, 2}

\* the rule both calls work on
cr_rule == rules[1]

\* the answer of the price source for the date generate_schedules_for_date is given
cr_prices_for(date) == IF date = now.date THEN cr_today ELSE cr_tomorrow

\* the rows regenerate_schedules_for_rule inserts after its DELETE, today's
\* and then tomorrow's
rows_on_demand ==
    (IF cr_today.ok
     THEN rows_for_rule_and_date(cr_rule, cr_today.prices,
              rule_hours(cr_rule, cr_today.prices), now.date, Some(now.time))
     ELSE <<>>)
    \o (IF cr_tomorrow.ok /\ cr_tomorrow.prices # <<>>
        THEN rows_for_rule_and_date(cr_rule, cr_tomorrow.prices,
                 rule_hours(cr_rule, cr_tomorrow.prices), now.date + 1, None)
        ELSE <<>>)

\* regenerate_schedules_for_rule of call c: its DELETE; the rows to insert
\* follow from the answers of the price source
ConcurrentDelete(c) ==
    /\ cr_kind[c] = "on_demand"
    /\ cr_pc[c] = "start"
    /\ scheduled_actions' =
          delete_future_pending(scheduled_actions, cr_rule.id, now.date, now.time)
    /\ cr_todo' = [cr_todo EXCEPT ![c] = rows_on_demand]
    /\ cr_pc' = [cr_pc EXCEPT ![c] = IF rows_on_demand = <<>> THEN "done" ELSE "insert"]
    /\ UNCHANGED <<rules, cr_kind, cr_date, cr_today, cr_tomorrow, cr_initial>>

\* generate_schedules_for_date of call c: the prices are fetched and the
\* enabled rules selected
ConcurrentGenerate(c) ==
    /\ cr_kind[c] = "background"
    /\ cr_pc[c] = "start"
    /\ LET res == cr_prices_for(cr_date)
           todo == IF res.ok
                   THEN generate_schedule_with_prices(enabled_rules, res.prices, cr_date)
                   ELSE <<>>
       IN /\ cr_todo' = [cr_todo EXCEPT ![c] = todo]
          /\ cr_pc' = [cr_pc EXCEPT ![c] = IF todo = <<>> THEN "done" ELSE "insert"]
    /\ UNCHANGED <<store_vars, cr_kind, cr_date, cr_today, cr_tomorrow, cr_initial>>

\* one INSERT of call c
ConcurrentInsert(c) ==
    /\ cr_pc[c] = "insert"
    /\ scheduled_actions' = insert_action(scheduled_actions, Head(cr_todo[c]))
    /\ cr_todo' = [cr_todo EXCEPT ![c] = Tail(cr_todo[c])]
    /\ cr_pc' = [cr_pc EXCEPT ![c] = IF Tail(cr_todo[c]) = <<>> THEN "done" ELSE "insert"]
    /\ UNCHANGED <<rules, cr_kind, cr_date, cr_today, cr_tomorrow, cr_initial>>

Concurrent ==
    \E c \in Calls :
        \/ ConcurrentDelete(c)
        \/ ConcurrentGenerate(c)
        \/ ConcurrentInsert(c)

(***************************************************************************)
(* The specifications.                                                     *)
(***************************************************************************)
vars == <<sel_vars, env_vars, store_vars, od_vars, fg_vars, bg_vars,
          sw_vars, st_vars, dr_vars, cr_vars>>

\* the server as it starts: day 0, a Monday, at 01:00, one enabled rule for
\* every day, an empty store, no request, the background task at its first
\* statement
StoreAtStart ==
    /\ now = [date |-> 0, time |-> FirstClockTime]
    /\ published = 0
    /\ rules = [id \in RuleIds |-> Rule(id, 2, 1, None, None, ALL_DAYS, TRUE)]
    /\ scheduled_actions = {}

\* no request, the background tasks at their first statements
TasksIdle ==
    /\ od_pc = "idle"
    /\ od_rule = NoRule
    /\ od_now = NoTime
    /\ od_todo = <<>>
    /\ od_stats = NoStats
    /\ updates_done = 0
    /\ od_request = "none"
    /\ od_response = NoResponse
    /\ fg_pc = "idle"
    /\ fg_today = 0
    /\ fg_rules = <<>>
    /\ fg_todo = <<>>
    /\ forced_done = 0
    /\ bg_pc = "backfill_today"
    /\ bg_phase = "backfill_today"
    /\ bg_now = NoTime
    /\ bg_date = 0
    /\ bg_prices = <<>>
    /\ bg_todo = <<>>
    /\ last_generation_date = None
    /\ retry_pending = FALSE
    /\ last_retry = None
    /\ bg_result = "none"
    /\ sw_pc = "wait"
    /\ sw_now = NoTime
    /\ sw_result = "none"
    /\ st_request = NoRequest
    /\ st_response = "none"
    /\ status_done = 0
    /\ dr_response = "none"

\* none of the two calls at one instant is looked at
CallsIdle ==
    /\ cr_kind = [c \in Calls |-> "none"]
    /\ cr_date = 0
    /\ cr_pc = [c \in Calls |-> "idle"]
    /\ cr_todo = [c \in Calls |-> <<>>]
    /\ cr_today = Err
    /\ cr_tomorrow = Err
    /\ cr_initial = {}

SystemIdle ==
    /\ StoreAtStart
    /\ TasksIdle
    /\ CallsIdle

\* no call of the selector is looked at
SelectorIdle ==
    /\ sel_call = Call(<<>>, 1, 1, None, None)
    /\ sel_filtered = <<>>
    /\ sel_result = OptimalHours(<<>>, 0)
    /\ sel_pc = "idle"

\* one call of calculate_optimal_hours, the rest of the system at rest
SelectorInit ==
    /\ BoundedCall(sel_call) \/ FullDayCall(sel_call)
    /\ sel_filtered = <<>>
    /\ sel_result = OptimalHours(<<>>, 0)
    /\ sel_pc = "call"
    /\ SystemIdle

Calculate ==
    /\ sel_pc = "call"
    /\ sel_result' = calculate_optimal_hours(sel_call.prices, sel_call.max_hours,
                        sel_call.min_continuous_hours,
                        sel_call.time_window_start, sel_call.time_window_end)
    /\ sel_filtered' = filter_by_time_window(sel_call.prices,
                        sel_call.time_window_start, sel_call.time_window_end)
    /\ sel_pc' = "done"
    /\ UNCHANGED <<sel_call, env_vars, store_vars, od_vars, fg_vars, bg_vars,
                   sw_vars, st_vars, dr_vars, cr_vars>>

SelectorNext == Calculate

SpecSelector == SelectorInit /\ [][SelectorNext]_vars

\* the system: requests, the background task, the clock and the price source
\* take their steps in any order from the start of the server
Init ==
    /\ SelectorIdle
    /\ SystemIdle

\* the steps of each part of the system, the rest unchanged
OnDemandStep ==
    OnDemand /\ UNCHANGED <<sel_vars, env_vars, fg_vars, bg_vars, sw_vars, st_vars, dr_vars, cr_vars>>

ForcedStep ==
    Forced /\ UNCHANGED <<sel_vars, env_vars, od_vars, bg_vars, sw_vars, st_vars, dr_vars, cr_vars>>

BackgroundStep ==
    Background /\ UNCHANGED <<sel_vars, env_vars, od_vars, fg_vars, sw_vars, st_vars, dr_vars, cr_vars>>

EnvironmentStep ==
    Environment /\ UNCHANGED <<sel_vars, store_vars, od_vars, fg_vars, bg_vars,
                               sw_vars, st_vars, dr_vars, cr_vars>>

SweepStep ==
    Sweep /\ UNCHANGED <<sel_vars, env_vars, od_vars, fg_vars, bg_vars, st_vars, dr_vars, cr_vars>>

StatusStep ==
    UpdateScheduleStatus
       /\ UNCHANGED <<sel_vars, env_vars, od_vars, fg_vars, bg_vars, sw_vars, dr_vars, cr_vars>>

DeleteRuleStep ==
    DeleteRule /\ UNCHANGED <<sel_vars, env_vars, od_vars, fg_vars, bg_vars, sw_vars, st_vars,
                               cr_vars>>

Next ==
    \/ OnDemandStep
    \/ ForcedStep
    \/ BackgroundStep
    \/ EnvironmentStep

Spec == Init /\ [][Next]_vars

\* the life of the scheduled actions: rule updates, the expiry sweep and the
\* status requests of the executor, with the clock and the price source
LifecycleNext ==
    \/ OnDemandStep
    \/ SweepStep
    \/ StatusStep
    \/ EnvironmentStep

SpecLifecycle == Init /\ [][LifecycleNext]_vars

\* the two background tasks with their failures, the clock passing through
\* the generation minute and the retry interval
BackgroundFailureStep ==
    BackgroundFailures
       /\ UNCHANGED <<sel_vars, env_vars, od_vars, fg_vars, sw_vars, st_vars, dr_vars, cr_vars>>

DailyEnvironmentStep ==
    DailyEnvironment /\ UNCHANGED <<sel_vars, store_vars, od_vars, fg_vars, bg_vars,
                                    sw_vars, st_vars, dr_vars, cr_vars>>

DailyNext ==
    \/ BackgroundStep
    \/ BackgroundFailureStep
    \/ SweepStep
    \/ DailyEnvironmentStep

SpecDaily == Init /\ [][DailyNext]_vars

\* the two background tasks with their failures, the clock at its two
\* instants of the day
LoopsNext ==
    \/ BackgroundStep
    \/ BackgroundFailureStep
    \/ SweepStep
    \/ EnvironmentStep

\* the runtime runs each task that can take a step, and every call a task
\* awaits returns, with Ok or with Err
SpecLoops ==
    /\ Init
    /\ [][LoopsNext]_vars
    /\ WF_vars(BackgroundFailureStep \/ BackgroundStep)
    /\ WF_vars(SweepStep)

\* the background task with its failures beside the rule updates: the
\* startup backfill may find rows that a request has inserted
BackfillNext ==
    \/ OnDemandStep
    \/ BackgroundStep
    \/ BackgroundFailureStep
    \/ EnvironmentStep

SpecBackfill == Init /\ [][BackfillNext]_vars

\* the rule requests with any body and the store failing under them
RuleRequestStep ==
    RuleRequests
       /\ UNCHANGED <<sel_vars, env_vars, fg_vars, bg_vars, sw_vars, st_vars, dr_vars, cr_vars>>

RuleRequestFailureStep ==
    RuleRequestFailures
       /\ UNCHANGED <<sel_vars, env_vars, fg_vars, bg_vars, sw_vars, st_vars, dr_vars, cr_vars>>

RequestsNext ==
    \/ RuleRequestStep
    \/ RuleRequestFailureStep
    \/ EnvironmentStep

SpecRequests == Init /\ [][RequestsNext]_vars

\* the tables two concurrent calls may find: the empty one, and the one a
\* regeneration of a rule of three hours a day has left at the same instant
SeedRule == Rule(1, 3, 1, None, None, ALL_DAYS, TRUE)
SeedTables(at) ==
    {{}, regenerate_schedules_for_rule({}, SeedRule, at, Ok(DayPrices), Ok(DayPrices))}

\* the rules the two calls work on
ConcurrentRules ==
    {Rule(1, 2, 1, None, None, ALL_DAYS, TRUE),
     Rule(1, 1, 1, None, None, ALL_DAYS, TRUE),
     Rule(1, 2, 2, None, None, ALL_DAYS, TRUE)}

\* two calls are about to start on one rule at one instant of day 0
ConcurrentInit ==
    /\ SelectorIdle
    /\ TasksIdle
    /\ now \in {[date |-> 0, time |-> t] : t \in ClockTimes}
    /\ published \in {0, 1}
    /\ rules \in {[id \in RuleIds |-> rule] : rule \in ConcurrentRules}
    /\ scheduled_actions \in SeedTables(now)
    /\ cr_initial = scheduled_actions
    /\ cr_today \in get_today_prices
    /\ cr_tomorrow \in get_tomorrow_prices
    /\ cr_kind \in {[c \in Calls |-> IF c = 1 THEN "on_demand" ELSE k] :
                       k \in {"on_demand", "background"}}
    /\ cr_date \in IF cr_kind[2] = "background" THEN {now.date, now.date + 1} ELSE {0}
    /\ cr_pc = [c \in Calls |-> "start"]
    /\ cr_todo = [c \in Calls |-> <<>>]

ConcurrentStep ==
    Concurrent /\ UNCHANGED <<sel_vars, env_vars, od_vars, fg_vars, bg_vars, sw_vars, st_vars,
                               dr_vars>>

ConcurrentNext == ConcurrentStep

SpecConcurrent == ConcurrentInit /\ [][ConcurrentNext]_vars

\* the rules are updated and deleted
DeleteNext ==
    \/ OnDemandStep
    \/ DeleteRuleStep
    \/ EnvironmentStep

SpecDelete == Init /\ [][DeleteNext]_vars

(***************************************************************************)
(* Properties of the selector.                                             *)
(***************************************************************************)
\* the window a rule asks for, on hours: the bounds count by their hour
InWindow(h, ws, we) ==
    IF ws = None /\ we = None THEN TRUE
    ELSE IF ws # None /\ we # None THEN
        IF hour_of(ws[1]) <= hour_of(we[1])
        THEN hour_of(ws[1]) <= h /\ h < hour_of(we[1])
        ELSE h >= hour_of(ws[1]) \/ h < hour_of(we[1])
    ELSE IF ws # None THEN h >= hour_of(ws[1])
    ELSE h < hour_of(we[1])

\* the price entries of the call that lie inside its window
CallAvailable ==
    {p \in Range(sel_call.prices) :
        InWindow(p.hour, sel_call.time_window_start, sel_call.time_window_end)}

CallCrossesMidnight ==
    /\ sel_call.time_window_start # None
    /\ sel_call.time_window_end # None
    /\ hour_of(sel_call.time_window_start[1]) > hour_of(sel_call.time_window_end[1])

SelectedHours == Range(sel_result.hours)

RECURSIVE SumOfEntries(_)
SumOfEntries(S) ==
    IF S = {} THEN 0
    ELSE LET p == CHOOSE q \in S : TRUE IN p.price + SumOfEntries(S \ {p})

\* the number of selected hours in the maximal run of consecutive hours around h
RunLength(H, h) ==
    Cardinality({x \in H : \A y \in (IF x < h THEN x ELSE h)..(IF x < h THEN h ELSE x) : y \in H})

\* C1: calculate_optimal_hours returns at most max_hours hours, and every
\* returned hour lies inside the requested window.
C1_AtMostMaxInsideWindow ==
    sel_pc = "done" =>
        /\ Len(sel_result.hours) <= sel_call.max_hours
        /\ \A h \in SelectedHours :
              InWindow(h, sel_call.time_window_start, sel_call.time_window_end)

C1_Witness ==
    /\ sel_pc = "done"
    /\ CallCrossesMidnight
    /\ sel_call.min_continuous_hours > 1
    /\ Len(sel_result.hours) = sel_call.max_hours
    /\ Cardinality(CallAvailable) > sel_call.max_hours
    /\ Cardinality(CallAvailable) < Len(sel_call.prices)

\* C2: the scattered strategy (min_continuous_hours <= 1) returns exactly
\* min(max_hours, hours inside the window) hours, no unselected hour of the
\* window is strictly cheaper than a selected one, and total_price is the
\* sum of the prices of exactly the selected hours.
C2_ScatteredCheapest ==
    (sel_pc = "done" /\ sel_call.min_continuous_hours <= 1) =>
        LET chosen == {p \in CallAvailable : p.hour \in SelectedHours}
            n == Cardinality(CallAvailable)
        IN /\ Len(sel_result.hours) = (IF sel_call.max_hours < n THEN sel_call.max_hours ELSE n)
           /\ Cardinality(SelectedHours) = Len(sel_result.hours)
           /\ SelectedHours = {p.hour : p \in chosen}
           /\ \A p \in CallAvailable \ chosen : \A q \in chosen : ~(p.price < q.price)
           /\ sel_result.total_price = SumOfEntries(chosen)

C2_Witness ==
    /\ sel_pc = "done"
    /\ sel_call.min_continuous_hours <= 1
    /\ Len(sel_result.hours) = sel_call.max_hours
    /\ \E p \in CallAvailable : p.hour \notin SelectedHours
    /\ \E p \in CallAvailable : \E q \in CallAvailable :
          p.price < q.price /\ q.hour \in SelectedHours
    /\ \E p \in CallAvailable : \E q \in CallAvailable :
          p.price < q.price /\ q.hour \notin SelectedHours /\ q.hour < p.hour

\* C3: in the continuous-block strategy (min_continuous_hours > 1) every
\* maximal run of consecutive selected hours holds at least
\* min_continuous_hours hours.
C3_RunsAtLeastMin ==
    (sel_pc = "done" /\ sel_call.min_continuous_hours > 1) =>
        \A h \in SelectedHours :
            RunLength(SelectedHours, h) >= sel_call.min_continuous_hours

C3_Witness ==
    /\ sel_pc = "done"
    /\ sel_call.min_continuous_hours > 1
    /\ Len(sel_call.prices) < 24
    /\ \E h \in SelectedHours : RunLength(SelectedHours, h) < Cardinality(SelectedHours)

\* C4: hour 0 is treated as consecutive to hour 23: when a midnight-crossing
\* window leaves the hours 22, 23, 0 and 1 and min_continuous_hours = 4 fits
\* in max_hours, the block 22-23-0-1 is a candidate and is returned.
C4_WrapBlockReturned ==
    (/\ sel_pc = "done"
     /\ CallCrossesMidnight
     /\ {p.hour : p \in CallAvailable} = {22, 23, 0, 1}
     /\ sel_call.min_continuous_hours = 4
     /\ sel_call.max_hours >= 4) =>
        SelectedHours = {22, 23, 0, 1}

\* C5: the window filter keeps exactly the entries whose hour is inside the
\* window (all of them without bounds; start <= h < end; h >= start or
\* h < end across midnight; h >= start; h < end), in their order, and adds
\* or changes no entry.
C5_FilterKeepsWindow ==
    sel_pc = "done" =>
        /\ Range(sel_filtered) = CallAvailable
        /\ Len(sel_filtered) = Cardinality(CallAvailable)
        /\ \A i \in 1..Len(sel_filtered) : \A j \in 1..Len(sel_filtered) :
              i < j => sel_filtered[i].hour < sel_filtered[j].hour
        /\ (sel_call.time_window_start # None /\ sel_call.time_window_end # None
            /\ hour_of(sel_call.time_window_start[1]) = hour_of(sel_call.time_window_end[1]))
              => sel_filtered = <<>>

\* the night window 20:00-06:00 on a full day keeps 20..23 and 0..5
C5_Witness ==
    /\ sel_pc = "done"
    /\ sel_call.time_window_start = Some(from_hms(20, 0, 0))
    /\ sel_call.time_window_end = Some(from_hms(6, 0, 0))
    /\ Len(sel_call.prices) = 24
    /\ {p.hour : p \in Range(sel_filtered)} = (20..23) \cup (0..5)

(***************************************************************************)
(* The store under the generation paths.                                   *)
(***************************************************************************)
KeysUnique == \A a, b \in scheduled_actions : SameKey(a, b) => a = b

KeyTaken(row) == \E a \in scheduled_actions : SameKey(a, row)

InsertPcs == {"insert_today", "insert_tomorrow"}

\* an INSERT of any path whose key is taken leaves the table as it is
ConflictingInsertChangesNothing ==
    /\ (od_pc \in InsertPcs /\ od_todo' = Tail(od_todo) /\ KeyTaken(Head(od_todo))
           => scheduled_actions' = scheduled_actions)
    /\ (fg_pc \in InsertPcs /\ fg_todo' = Tail(fg_todo) /\ KeyTaken(Head(fg_todo))
           => scheduled_actions' = scheduled_actions)
    /\ (bg_pc = "insert" /\ bg_todo' # bg_todo /\ KeyTaken(Head(bg_todo))
           => scheduled_actions' = scheduled_actions)

\* C6: in every reachable state, under any interleaving of on-demand
\* regeneration, forced generation, startup backfill and the daily loop, the
\* store holds at most one scheduled action per (rule_id, scheduled_date,
\* start_time), and an insert that hits an existing key changes nothing.
C6_OneActionPerKey == []KeysUnique /\ [][ConflictingInsertChangesNothing]_vars

\* a regeneration answers that it created nothing for today although the
\* prices were there and hour 23 lay ahead: its insert hit the row that the
\* background task had put under the same key, which is still there
C6_Witness ==
    /\ od_pc = "respond"
    /\ od_now.date = 0
    /\ od_stats.today_available
    /\ od_stats.created_count = 0
    /\ \E a \in scheduled_actions :
          /\ a.rule_id = od_rule.id
          /\ a.scheduled_date = 0
          /\ a.start_time = from_hms(23, 0, 0)
          /\ a.end_time = end_time_wrapped(23)

\* what the store holds when a regeneration of od_rule that starts in this
\* state runs to its end undisturbed, and when a second one follows it
RegeneratedOnce(today_res, tomorrow_res) ==
    regenerate_schedules_for_rule(scheduled_actions, od_rule, now, today_res, tomorrow_res)

RegeneratedTwice(today_res, tomorrow_res) ==
    regenerate_schedules_for_rule(RegeneratedOnce(today_res, tomorrow_res),
                                  od_rule, now, today_res, tomorrow_res)

\* C7: regeneration is idempotent: whenever a regeneration is about to
\* start, running it twice in succession for the same rule, at the same
\* instant and with the same answers of the price source, leaves the same
\* set of scheduled actions as running it once, with one row per key.
C7_RegenerationIdempotent ==
    od_pc = "regen_delete" =>
        \A today_res \in get_today_prices, tomorrow_res \in get_tomorrow_prices :
            /\ RegeneratedTwice(today_res, tomorrow_res) = RegeneratedOnce(today_res, tomorrow_res)
            /\ \A a, b \in RegeneratedTwice(today_res, tomorrow_res) : SameKey(a, b) => a = b

\* the second update of the rule is about to regenerate; with the prices of
\* both days at hand one run deletes rows of the store and inserts others
C7_Witness ==
    /\ od_pc = "regen_delete"
    /\ updates_done = 2
    /\ \E today_res \in get_today_prices, tomorrow_res \in get_tomorrow_prices :
          /\ today_res.ok /\ today_res.prices # <<>>
          /\ tomorrow_res.ok /\ tomorrow_res.prices # <<>>
          /\ scheduled_actions \ RegeneratedOnce(today_res, tomorrow_res) # {}
          /\ RegeneratedOnce(today_res, tomorrow_res) \ scheduled_actions # {}

\* the steps of a regeneration that write to the store: its DELETE, which
\* reads the clock, and its INSERTs
RegenDeleteStep == od_pc = "regen_delete" /\ od_pc' = "fetch_today"

RegenInsertStep == od_pc \in InsertPcs /\ od_todo' = Tail(od_todo)

\* the rows a step takes out of the store; a row that is changed is taken
\* out and another put in
Removed == scheduled_actions \ scheduled_actions'

Created == scheduled_actions' \ scheduled_actions

RegenerationKeepsThePast ==
    /\ RegenDeleteStep =>
          \A a \in Removed :
             /\ a.rule_id = od_rule.id
             /\ a.status = "pending"
             /\ starts_after(a, now.date, now.time)
    /\ RegenInsertStep => Removed = {}

\* C8: regeneration never deletes or modifies a scheduled action whose date
\* is before today, or whose date is today and whose start time is at or
\* before the current time, whatever its status; only pending actions of the
\* rule that start strictly after now are removed.
C8_RegenerationKeepsThePast == [][RegenerationKeepsThePast]_vars

\* the DELETE of a regeneration has just run: a pending row of the rule
\* dated before today and one of today that has started are still there, and
\* no pending row of the rule that starts later is left
C8_Witness ==
    /\ od_pc = "fetch_today"
    /\ \E a \in scheduled_actions :
          a.rule_id = od_rule.id /\ a.status = "pending" /\ a.scheduled_date < od_now.date
    /\ \E a \in scheduled_actions :
          /\ a.rule_id = od_rule.id /\ a.status = "pending"
          /\ a.scheduled_date = od_now.date /\ a.start_time <= od_now.time
    /\ \E a \in scheduled_actions : a.status = "cancelled"
    /\ ~\E a \in scheduled_actions :
          /\ a.rule_id = od_rule.id /\ a.status = "pending"
          /\ starts_after(a, od_now.date, od_now.time)

\* the INSERT steps of the forced generation and of the background task
ForcedInsertStep == fg_pc \in InsertPcs /\ fg_todo' = Tail(fg_todo)

GenInsertStep == bg_pc = "insert" /\ bg_todo' # bg_todo

\* a row has started at an instant of its own day
StartedAt(a, time) == a.start_time <= time

\* no path that generates for its own today creates a pending row that has
\* started by the time that path read the clock; the forced generation
\* reads the date only, and is held to the clock of its INSERT while the
\* date is still the same
OnlyLaterHoursCreatedForToday ==
    /\ RegenInsertStep =>
          \A a \in Created :
             a.scheduled_date = od_now.date => ~StartedAt(a, od_now.time)
    /\ ForcedInsertStep =>
          \A a \in Created :
             a.scheduled_date = fg_today /\ now.date = fg_today => ~StartedAt(a, now.time)
    /\ GenInsertStep /\ bg_phase = "backfill_today" =>
          \A a \in Created :
             a.scheduled_date = bg_now.date /\ now.date = bg_now.date
                 => ~StartedAt(a, bg_now.time)

\* C9: when schedule entries are generated for today's date, by on-demand
\* regeneration, the forced generation endpoint or the startup backfill, only
\* the selected hours that start strictly after the current time are
\* inserted: no entry is created pending with a start time at or before now.
C9_OnlyLaterHoursCreatedForToday == [][OnlyLaterHoursCreatedForToday]_vars

\* the dates a regeneration generates for: its today and its tomorrow
TargetDates(at) == {at.date, at.date + 1}

\* the rows of a rule for a date, in a table
RowsOf(table, rule_id, date) ==
    {a \in table : a.rule_id = rule_id /\ a.scheduled_date = date}

\* a step of the regeneration of od_rule, which reads the clock in its first
RegenStep ==
    /\ od_pc \in {"regen_delete", "fetch_today", "fetch_tomorrow", "respond"} \cup InsertPcs
    /\ od_pc' # od_pc \/ od_todo' # od_todo

ExcludedDayUntouched ==
    RegenStep =>
        \A date \in TargetDates(od_now') :
            ~includes_day(od_rule.days_of_week, date) =>
                RowsOf(scheduled_actions', od_rule.id, date)
                    = RowsOf(scheduled_actions, od_rule.id, date)

\* C10 as stated: if the rule's days_of_week mask does not include the
\* weekday of the target date, regenerating the rule is a no-op for that
\* date: no entry is created and the rule's entries for that date, the
\* pending future ones included, are left unchanged.
C10_ExcludedDayUntouched == [][ExcludedDayUntouched]_vars

ExcludedDayLosesOnlyFuturePending ==
    /\ RegenDeleteStep =>
          \A date \in TargetDates(now) :
             ~includes_day(od_rule.days_of_week, date) =>
                 RowsOf(scheduled_actions', od_rule.id, date)
                     = {a \in RowsOf(scheduled_actions, od_rule.id, date) :
                           ~(a.status = "pending" /\ starts_after(a, now.date, now.time))}
    /\ RegenStep /\ ~RegenDeleteStep =>
          \A date \in TargetDates(od_now) :
             ~includes_day(od_rule.days_of_week, date) =>
                 RowsOf(scheduled_actions', od_rule.id, date)
                     = RowsOf(scheduled_actions, od_rule.id, date)

\* C10 amended: if the rule's days_of_week mask does not include the weekday
\* of the target date, regenerating the rule creates no entry for that date
\* and deletes the rule's pending entries for that date that start after
\* now; its other entries for that date are left unchanged.
C10_ExcludedDayLosesOnlyFuturePending == [][ExcludedDayLosesOnlyFuturePending]_vars

\* a regeneration of a rule that excludes its tomorrow has answered; the
\* prices of tomorrow were there, and of the rule's rows for tomorrow only
\* one that is not pending is left
C10_Witness ==
    /\ od_pc = "respond"
    /\ ~includes_day(od_rule.days_of_week, od_now.date + 1)
    /\ od_stats.tomorrow_available
    /\ RowsOf(scheduled_actions, od_rule.id, od_now.date + 1) # {}
    /\ \A a \in RowsOf(scheduled_actions, od_rule.id, od_now.date + 1) :
          a.status # "pending"

(***************************************************************************)
(* The life of a scheduled action.                                         *)
(***************************************************************************)
Terminal == {"executed", "failed", "cancelled", "missed"}

\* the steps of the status endpoint and of the sweep
StatusRequestStep == status_done' = status_done + 1

SweepTodayStep == sw_pc = "mark_today" /\ sw_pc' = "mark_old"

SweepOldStep == sw_pc = "mark_old" /\ sw_pc' = "wait" /\ sw_result' = "ok"

\* the row of the next state that has the key of a
Successors(a) == {b \in scheduled_actions' : SameKey(a, b)}

TerminalStatusStays ==
    \A a \in scheduled_actions :
       a.status \in Terminal => \A b \in Successors(a) : b.status = a.status

\* C11: the status of an action goes from pending to executed, failed,
\* cancelled or missed and stops there: no step of any operation, the status
\* endpoint included, gives an action that is executed, failed, cancelled or
\* missed another status, and none makes it pending again.
C11_TerminalStatusStays == [][TerminalStatusStays]_vars

\* an INSERT of any of the three generators
AnyInsertStep == RegenInsertStep \/ ForcedInsertStep \/ GenInsertStep

SchedulerLeavesTerminalAlone ==
    /\ ~StatusRequestStep =>
          \A a \in scheduled_actions : a.status \in Terminal => a \in scheduled_actions'
    /\ AnyInsertStep => scheduled_actions \subseteq scheduled_actions'

Changed == scheduled_actions' \ scheduled_actions

StatusEndpointContract ==
    StatusRequestStep =>
       /\ \A b \in Changed : b.status \in {"executed", "failed", "cancelled"}
       /\ st_request'.status \notin {"executed", "failed", "cancelled"} =>
             /\ st_response' = "bad_request"
             /\ scheduled_actions' = scheduled_actions
       /\ (/\ st_request'.status \in {"executed", "failed", "cancelled"}
           /\ ~(st_request'.found /\ st_request'.owned)) =>
             /\ st_response' = "not_found"
             /\ scheduled_actions' = scheduled_actions

\* C13: a request of the status endpoint gives an action no status but
\* executed, failed or cancelled; one that carries another status is answered
\* bad request and changes nothing, and one that names no action, or an
\* action of another user, is answered not found and changes nothing.
C13_StatusEndpointContract == [][StatusEndpointContract]_vars

CancelStep == od_pc = "cancel" /\ od_pc' = "idle"

Cancelled(a) == [a EXCEPT !.status = "cancelled"]

Missed(a) == [a EXCEPT !.status = "missed"]

\* the rule is there and is disabled
Disabled(rule_id) == rule_id \in DOMAIN rules /\ ~rules[rule_id].is_enabled

DisablingCancelsTheFuture ==
    /\ CancelStep =>
          /\ \A a \in scheduled_actions :
                IF /\ a.rule_id = od_rule.id
                   /\ a.status = "pending"
                   /\ \/ a.scheduled_date > now.date
                      \/ (a.scheduled_date = now.date /\ a.start_time > now.time)
                THEN a \notin scheduled_actions' /\ Cancelled(a) \in scheduled_actions'
                ELSE a \in scheduled_actions'
          /\ Cardinality(scheduled_actions') = Cardinality(scheduled_actions)
    /\ SweepTodayStep =>
          \A a \in scheduled_actions :
             (/\ Disabled(a.rule_id)
              /\ a.status = "pending"
              /\ a.scheduled_date = sw_now.date
              /\ a.end_time > a.start_time
              /\ a.end_time <= sw_now.time) => Missed(a) \in scheduled_actions'
    /\ SweepOldStep =>
          \A a \in scheduled_actions :
             (/\ Disabled(a.rule_id)
              /\ a.status = "pending"
              /\ a.scheduled_date < sw_now.date) => Missed(a) \in scheduled_actions'

DeletedRules == DOMAIN rules \ DOMAIN rules'

DeletingCancelsTheFuture ==
    \A a \in scheduled_actions :
       a.rule_id \in DeletedRules =>
          IF a.status = "pending" /\ starts_after(a, now.date, now.time)
          THEN Cancelled(a) \in scheduled_actions'
          ELSE a \in scheduled_actions'

\* C15: when a rule is deleted, its pending actions that start after now
\* become cancelled, and its other actions stay in the store as they are.
C15_DeletingCancelsTheFuture == [][DeletingCancelsTheFuture]_vars

(***************************************************************************)
(* The expiry sweep.                                                       *)
(***************************************************************************)
\* the day of the action is over at `at`
DayOver(a, at) == a.scheduled_date < at.date

\* the action is of the day of `at`, does not cross midnight and has ended
EndedToday(a, at) ==
    /\ a.scheduled_date = at.date
    /\ a.end_time > a.start_time
    /\ a.end_time <= at.time

PendingIn(table) == {a \in table : a.status = "pending"}

\* a pass about to run, run alone on the store as it is
PassMarksExpired ==
    sw_pc = "mark_today" =>
       LET after == mark_expired_actions_as_missed(scheduled_actions, sw_now)
       IN /\ \A a \in PendingIn(after) : ~DayOver(a, sw_now) /\ ~EndedToday(a, sw_now)
          /\ \A a \in PendingIn(scheduled_actions) :
                (DayOver(a, sw_now) \/ EndedToday(a, sw_now)) => Missed(a) \in after

\* each UPDATE of a pass, whatever was written before it
UpdateMarksExpired ==
    /\ SweepTodayStep =>
          /\ \A a \in PendingIn(scheduled_actions') : ~EndedToday(a, sw_now)
          /\ \A a \in PendingIn(scheduled_actions) :
                EndedToday(a, sw_now) => Missed(a) \in scheduled_actions'
    /\ SweepOldStep =>
          /\ \A a \in PendingIn(scheduled_actions') : ~DayOver(a, sw_now)
          /\ \A a \in PendingIn(scheduled_actions) :
                DayOver(a, sw_now) => Missed(a) \in scheduled_actions'

\* C16: a sweep pass that reads the clock at time t of day d and completes,
\* with no other writer between its two UPDATEs, leaves no action pending
\* whose scheduled_date is before d, and none of day d with end_time after
\* start_time and end_time at or before t: every such action is missed.
\* Each UPDATE does its half whatever was written before it.
C16_SweepMarksExpired == []PassMarksExpired /\ [][UpdateMarksExpired]_vars

\* a pass has completed that found a pending action of an earlier day and
\* one of its own day that had ended: both are missed
C16_Witness ==
    /\ sw_pc = "wait"
    /\ sw_result = "ok"
    /\ \E a, b \in scheduled_actions :
          /\ a.status = "missed" /\ DayOver(a, sw_now)
          /\ b.status = "missed" /\ EndedToday(b, sw_now)

\* an UPDATE of the sweep returns, with Ok or with Err
SweepUpdateStep == sw_pc \in {"mark_today", "mark_old"} /\ sw_pc' # sw_pc

\* the window of the action is open or to come at `at`
OpenOrFuture(a, at) ==
    \/ a.scheduled_date > at.date
    \/ (a.scheduled_date = at.date /\ a.end_time > at.time)

KeyOf(a) == <<a.rule_id, a.scheduled_date, a.start_time>>

SweepLeavesOpenWindows ==
    SweepUpdateStep =>
       /\ \A a \in scheduled_actions : OpenOrFuture(a, sw_now) => a \in scheduled_actions'
       /\ {KeyOf(a) : a \in scheduled_actions'} = {KeyOf(a) : a \in scheduled_actions}
       /\ Cardinality(scheduled_actions') = Cardinality(scheduled_actions)

\* C17: no UPDATE of the sweep changes an action of today whose end_time is
\* later than the time the pass read, nor an action of a later day: each
\* keeps its status through every pass; and the sweep neither inserts nor
\* deletes a row.
C17_SweepLeavesOpenWindows == [][SweepLeavesOpenWindows]_vars

\* a pass has completed on a store that holds a pending action of its day
\* that has not ended and a pending action of the next day
C17_Witness ==
    /\ sw_pc = "wait"
    /\ sw_result = "ok"
    /\ sw_now = now
    /\ \E b, c \in scheduled_actions :
          /\ b.status = "pending" /\ b.scheduled_date = sw_now.date
          /\ b.end_time > sw_now.time
          /\ c.status = "pending" /\ c.scheduled_date > sw_now.date

(***************************************************************************)
(* The daily loop.                                                         *)
(***************************************************************************)
\* a tick of run_daily_scheduler, and one that starts a generation attempt
DailyTickStep == bg_pc = "wait" /\ bg_now' = now /\ bg_now # now

DailyAttemptStart == DailyTickStep /\ bg_pc' = "fetch"

\* an attempt of the daily loop returns Ok, or Err
DailyAttemptEnd ==
    bg_phase = "daily" /\ bg_pc \in {"fetch", "rules", "insert"} /\ bg_pc' = "wait"

\* a generation the daily loop started today for tomorrow has succeeded
GeneratedToday == last_generation_date = Some(now.date + 1)

InGenerationMinute(t) ==
    t >= from_hms(SCHEDULE_GENERATION_HOUR, SCHEDULE_GENERATION_MINUTE, 0)
       /\ t < from_hms(SCHEDULE_GENERATION_HOUR, SCHEDULE_GENERATION_MINUTE + 1, 0)

OncePerDay == GeneratedToday => ~DailyAttemptStart

\* C18: once a generation for tomorrow has succeeded on a day, no later tick
\* of the daily loop on that day starts another attempt, the ticks that fall
\* inside the minute 20:30 included.
C18_OncePerDay == [][OncePerDay]_vars

\* the loop has ticked a second time inside the minute 20:30, after the
\* generation of the day had succeeded, and waits
C18_Witness ==
    /\ bg_pc = "wait"
    /\ bg_phase = "daily"
    /\ bg_now = now
    /\ now.time = from_hms(20, 30, 30)
    /\ bg_result = "ok"
    /\ GeneratedToday

SecondsSince(t, last) == (t.date - last.date) * 86400 + (t.time - last.time)

RetryIntervalSeconds == RETRY_INTERVAL_MINUTES * 60

RetryAfterFailure ==
    /\ (DailyAttemptEnd /\ bg_result' = "err") =>
          retry_pending' /\ last_retry' = Some(bg_now)
    /\ (DailyAttemptEnd /\ bg_result' = "ok") =>
          ~retry_pending' /\ last_retry' = None
    /\ (DailyTickStep /\ retry_pending) =>
          /\ IsSome(last_retry)
          /\ (/\ ~InGenerationMinute(now.time)
              /\ SecondsSince(now, Unwrap(last_retry)) < RetryIntervalSeconds)
                => ~DailyAttemptStart
          /\ SecondsSince(now, Unwrap(last_retry)) >= RetryIntervalSeconds
                => DailyAttemptStart
    /\ (DailyTickStep /\ ~retry_pending /\ ~InGenerationMinute(now.time)) =>
          ~DailyAttemptStart

DailyLoopWaits == bg_pc = "wait" /\ bg_now = now

\* the sweep loop has ticked at the present instant and awaits the next tick
SweepLoopWaits == sw_pc = "wait" /\ sw_now = now

\* C20: no failure ends a loop.  The task of the daily loop is always in the
\* startup backfill, in an attempt or waiting for a tick, and the sweep task
\* in a pass or waiting for a tick; and whatever price-source and store
\* errors the backfill, the attempts and the passes meet, each loop ticks
\* again at every instant the clock rests on and completes its check.
C20_LoopsKeepTicking ==
    /\ [](bg_pc \in {"backfill_today", "backfill_tomorrow", "wait", "fetch", "rules", "insert"})
    /\ [](sw_pc \in {"wait", "mark_today", "mark_old"})
    /\ []<>DailyLoopWaits
    /\ []<>SweepLoopWaits

\* after a failed attempt and a failed pass, the daily loop is in its retry
\* and the sweep loop in its next pass
C20_Witness ==
    /\ bg_phase = "daily"
    /\ bg_pc = "fetch"
    /\ bg_result = "err"
    /\ sw_pc = "mark_today"
    /\ sw_result = "err"


(***************************************************************************)
(* Properties of the rule requests.                                        *)
(***************************************************************************)
\* 1 <= min_continuous_hours <= max_hours <= 24
RuleValid(rule) ==
    /\ 1 <= rule.min_continuous_hours
    /\ rule.min_continuous_hours <= rule.max_hours
    /\ rule.max_hours <= 24

\* C21: every rule in the store, after any sequence of create and update
\* requests, has 1 <= min_continuous_hours <= max_hours <= 24: a request that
\* would break this is refused before the rule is written.
C21_StoredRulesValid == \A id \in DOMAIN rules : RuleValid(rules[id])

\* an Err of regenerate_schedules_for_rule: the request ends at a store statement
RegenFailureStep ==
    /\ od_pc \in {"regen_delete", "insert_today", "insert_tomorrow"}
    /\ od_pc' = "idle"

RowsOfRule(table, rule_id) == {a \in table : a.rule_id = rule_id}

\* the regeneration of a rule that create_rule has just inserted is between
\* its first and its last store statement
CreateRegenerating ==
    /\ od_request = "create"
    /\ od_pc \in {"fetch_today", "insert_today", "fetch_tomorrow", "insert_tomorrow"}

\* a new rule has no entry before its regeneration: a regeneration that fails
\* leaves none
FailedCreateLeavesNothing ==
    (od_request = "create" /\ RegenFailureStep)
        => RowsOfRule(scheduled_actions', od_rule.id) = {}

\* C22: a regeneration applies its delete and its inserts as one atomic step.
\* For the regeneration of a newly created rule, which has no entry before
\* the call: when the call fails at a store statement the store holds no
\* entry of the rule, as before the call, and while the call runs no state
\* holds a part of its entries.
C22_RegenerationAtomic ==
    /\ [][FailedCreateLeavesNothing]_vars
    /\ [](CreateRegenerating => RowsOfRule(scheduled_actions, od_rule.id) = {})

\* the steps of regenerate_schedules_for_rule at its two price fetches
FetchTodayStep == od_pc = "fetch_today" /\ od_pc' # od_pc
FetchTomorrowStep == od_pc = "fetch_tomorrow" /\ od_pc' # od_pc

\* Ok(ScheduleGenerationInfo) is returned
RespondStep == od_pc = "respond" /\ od_pc' = "idle"

\* the messages of a call that created nothing
InformationalMessages ==
    {"today passed, tomorrow at 20:30", "prices not yet available", "none generated"}

PricesAreNeverAnError ==
    \* no prices for today: nothing is created for today, the call goes on
    /\ (FetchTodayStep /\ ~od_stats'.today_available)
          => /\ od_pc' = "fetch_tomorrow"
             /\ od_stats'.created_count = od_stats.created_count
             /\ UNCHANGED scheduled_actions
    \* no prices for tomorrow: nothing is created for tomorrow, the call returns
    /\ (FetchTomorrowStep /\ ~od_stats'.tomorrow_available)
          => /\ od_pc' = "respond"
             /\ od_stats'.created_count = od_stats.created_count
             /\ UNCHANGED scheduled_actions
    \* the call returns Ok with its info, a message when nothing was created
    /\ RespondStep
          => /\ od_response' \in {Response("ok", "regenerated"),
                                  Response("created", "regenerated")}
             /\ (od_stats.created_count = 0
                    => schedule_info(od_stats).message \in InformationalMessages)
             /\ (~od_stats.today_available /\ ~od_stats.tomorrow_available
                    => schedule_info(od_stats) =
                          [schedules_created |-> 0, message |-> "prices not yet available"])
    \* the call returns Err at a store statement only
    /\ (od_request # "none" /\ od_response'.schedule_info = "none"
           /\ od_response'.code # "none")
          => od_pc \in {"regen_delete", "insert_today", "insert_tomorrow"}

\* C25: a failure of the price source or an empty price list is never an
\* error of regenerate_schedules_for_rule: nothing is created for that date,
\* the call returns Ok with an informational message, and it returns Err only
\* when a store statement fails.
C25_PricesAreNeverAnError == [][PricesAreNeverAnError]_vars

\* the call is about to return Ok after both price fetches gave nothing
C25_Witness ==
    /\ od_pc = "respond"
    /\ ~od_stats.today_available
    /\ ~od_stats.tomorrow_available
    /\ od_stats.created_count = 0

\* C26: a store failure during the regeneration that a rule create or update
\* triggers is answered as a failure of the request, never as a success.
C26_StoreFailurePropagated ==
    [][RegenFailureStep => od_response'.code = "error"]_vars

(***************************************************************************)
(* Properties of concurrent regenerations.                                 *)
(***************************************************************************)
ConcurrentDone == \A c \in Calls : cr_pc[c] = "done"

\* what one regenerate_schedules_for_rule, run alone at the same instant with
\* the same answers of the price source, leaves of the table the calls found
RegeneratedAlone ==
    regenerate_schedules_for_rule(cr_initial, cr_rule, now, cr_today, cr_tomorrow)

\* the rows the background generation of call 2 inserts, none when call 2
\* is a regeneration
GeneratedRows ==
    LET res == cr_prices_for(cr_date)
    IN IF cr_kind[2] = "background" /\ res.ok
       THEN generate_schedule_with_prices(enabled_rules, res.prices, cr_date)
       ELSE <<>>

\* what the two calls leave when one runs after the other has returned
RunInTurn ==
    {insert_all(RegeneratedAlone, GeneratedRows),
     regenerate_schedules_for_rule(insert_all(cr_initial, GeneratedRows),
                                   cr_rule, now, cr_today, cr_tomorrow)}

\* C23: concurrent regenerations of one rule converge: when two on-demand
\* regenerations, or one on-demand regeneration and one background
\* generation, have run with the same rule and the same prices, in any
\* interleaving of their store statements, the table has one row per key and
\* is the one a single regeneration run alone leaves, or at least one that
\* the two calls leave when they run one after the other.
C23_ConcurrentRegenerationsConverge ==
    ConcurrentDone =>
        (KeysUnique /\ scheduled_actions \in {RegeneratedAlone} \cup RunInTurn)

(***************************************************************************)
(* Properties of the loops under skipped ticks.                            *)
(***************************************************************************)
\* it is 20:30 or later
AfterGenerationTime ==
    now.time >= from_hms(SCHEDULE_GENERATION_HOUR, SCHEDULE_GENERATION_MINUTE, 0)

\* tomorrow's generation is still due today: it has not succeeded, no retry
\* is pending, and the store holds no row of tomorrow
GenerationDue ==
    /\ AfterGenerationTime
    /\ ~GeneratedToday
    /\ ~retry_pending
    /\ count_for_date(now.date + 1) = 0

\* C24: the daily loop tolerates a skipped or delayed tick: a tick handled
\* at 20:30 or later on a day whose generation of tomorrow's schedules is
\* still due performs that generation, also when the tick that would have
\* fallen inside the generation minute was skipped.
C24_LateTickGenerates ==
    [][(DailyTickStep /\ GenerationDue) => bg_pc' = "fetch"]_vars

(***************************************************************************)
(* Properties of the startup backfill.                                     *)
(***************************************************************************)
\* check_and_generate_today_schedules calls generate_schedules_for_date
BackfillTodayGenerates == bg_pc = "backfill_today" /\ bg_pc' = "fetch"
BackfillTomorrowGenerates == bg_pc = "backfill_tomorrow" /\ bg_pc' = "fetch"

BackfillOnlyIntoEmptyDates ==
    /\ BackfillTodayGenerates => count_for_date(now.date) = 0
    /\ BackfillTomorrowGenerates =>
          /\ bg_now.time >= from_hms(SCHEDULE_GENERATION_HOUR, SCHEDULE_GENERATION_MINUTE, 0)
          /\ count_for_date(bg_now.date + 1) = 0

\* C27: the startup backfill generates for today only if the store holds no
\* row dated today, and for tomorrow only if it is 20:30 or later and the
\* store holds no row dated tomorrow: with a row of the date in the store it
\* generates nothing for that date.
C27_BackfillOnlyIntoEmptyDates == [][BackfillOnlyIntoEmptyDates]_vars

(***************************************************************************)
(* C28: with 24 hourly prices where hours 0-5 cost 0.05 (5) and every      *)
(* other hour costs 0.20 (20), max_hours = 4 and min_continuous_hours = 2, *)
(* the continuous-block strategy returns exactly the hours 0, 1, 2, 3 with *)
(* the total cost 0.20 (20).                                               *)
(***************************************************************************)
FullDayBlocksCall == Call(FullDay, 4, 2, None, None)

C28_FullDayBlocks ==
    (sel_pc = "done" /\ sel_call = FullDayBlocksCall) =>
        sel_result = OptimalHours(<<0, 1, 2, 3>>, 20)

C28_Witness ==
    /\ sel_pc = "done"
    /\ sel_call = FullDayBlocksCall
    /\ Len(sel_result.hours) = 4
    /\ sel_result.total_price = 4 * 5

(***************************************************************************)
(* C29: in the continuous-block strategy two blocks that the greedy step   *)
(* accepted separately are never chronologically adjacent, so that every   *)
(* maximal run of consecutive hours in the output is exactly one accepted  *)
(* block.                                                                  *)
(***************************************************************************)
RECURSIVE HoursOfBlocks(_)
\* selected_hours: the hours of the accepted blocks, in the order accepted
HoursOfBlocks(accepted) ==
    IF accepted = <<>> THEN <<>>
    ELSE Head(accepted).hours \o HoursOfBlocks(Tail(accepted))

RECURSIVE accepted_blocks(_, _, _)
\* the greedy loop of select_blocks, keeping the blocks it accepts apart
accepted_blocks(blocks, accepted, max_hours) ==
    IF blocks = <<>> THEN accepted
    ELSE IF Len(blocks) = 1
    THEN LET block == blocks[1]
             selected_hours == HoursOfBlocks(accepted)
             overlaps == Range(block.hours) \cap Range(selected_hours) # {}
         IN IF ~overlaps /\ Len(selected_hours) + Len(block.hours) <= max_hours
            THEN Append(accepted, block)
            ELSE accepted
    ELSE LET mid == Len(blocks) \div 2
             first == accepted_blocks(SubSeq(blocks, 1, mid), accepted, max_hours)
         IN IF Len(HoursOfBlocks(first)) >= max_hours
            THEN first
            ELSE accepted_blocks(SubSeq(blocks, mid + 1, Len(blocks)), first, max_hours)

\* the blocks the greedy step accepted in the call that has returned
AcceptedBlocks ==
    IF Len(sel_filtered) < sel_call.min_continuous_hours THEN <<>>
    ELSE LET available_hours == SortHours([i \in 1..Len(sel_filtered) |-> sel_filtered[i].hour])
             blocks == all_blocks(sel_filtered, available_hours, 1,
                                  sel_call.min_continuous_hours)
         IN accepted_blocks(SortBlocks(blocks), <<>>, sel_call.max_hours)

\* block a ends in the hour before the one block b starts in
Adjacent(a, b) == a.hours[Len(a.hours)] + 1 = b.hours[1]

\* the accepted blocks are the ones the returned hours come from
AcceptedAreReturned ==
    (sel_pc = "done" /\ sel_call.min_continuous_hours > 1) =>
        Range(HoursOfBlocks(AcceptedBlocks)) = SelectedHours

C29_BlocksDoNotMerge ==
    (sel_pc = "done" /\ sel_call.min_continuous_hours > 1) =>
        LET accepted == AcceptedBlocks
        IN \A i, j \in 1..Len(accepted) :
              i # j => ~Adjacent(accepted[i], accepted[j])

(***************************************************************************)
(* C30: the continuous-block strategy returns its hours in ascending       *)
(* chronological order with no hour repeated, its total_price is the sum   *)
(* of the actual hourly prices of exactly the returned hours, and when no  *)
(* candidate block exists it returns no hours and the total 0.             *)
(***************************************************************************)
\* a candidate block exists: min_continuous consecutive hours are available
CandidateBlockExists ==
    LET available == {p.hour : p \in CallAvailable}
    IN \E h \in available :
          \A k \in 0..(sel_call.min_continuous_hours - 1) : h + k \in available

\* the sum of the prices the call gives for the returned hours
ActualPriceOfReturned ==
    SumOfEntries({p \in Range(sel_call.prices) : p.hour \in SelectedHours})

C30_BlocksSortedAndPriced ==
    (sel_pc = "done" /\ sel_call.min_continuous_hours > 1) =>
        /\ \A i, j \in 1..Len(sel_result.hours) :
              i < j => sel_result.hours[i] < sel_result.hours[j]
        /\ sel_result.total_price = ActualPriceOfReturned
        /\ ~CandidateBlockExists => sel_result = OptimalHours(<<>>, 0)

C30_Witness ==
    /\ sel_pc = "done"
    /\ sel_call.min_continuous_hours > 1
    /\ Len(sel_result.hours) >= 2
    /\ \E p, q \in Range(sel_call.prices) :
          /\ p.hour \in SelectedHours
          /\ q.hour \in SelectedHours
          /\ p.price # q.price
    /\ sel_result.total_price = ActualPriceOfReturned

\* a call of the continuous-block strategy with no candidate block
C30_NoBlock ==
    /\ sel_pc = "done"
    /\ sel_call.min_continuous_hours > 1
    /\ CallAvailable # {}
    /\ ~CandidateBlockExists
    /\ sel_result = OptimalHours(<<>>, 0)

(***************************************************************************)
(* The selector as a public function, applied to a price list in any       *)
(* order: calculate_optimal_hours takes any slice of hourly prices.        *)
(***************************************************************************)
\* the longest list that is permuted
MaxPermuted == 3

\* every ordering of the entries of the list s
Orderings(s) ==
    {SubSeq([i \in 1..Len(s) |-> s[p[i]]], 1, Len(s)) :
        p \in {q \in [1..Len(s) -> 1..Len(s)] : \A i, j \in 1..Len(s) : q[i] = q[j] => i = j}}

\* the full day with its hours in descending order
FullDayReversed == [i \in 1..24 |-> FullDay[25 - i]]

\* the scattered strategy called with a list in any order, no time window
PermutedCall(c) ==
    \/ \E S \in SUBSET HourUniverse :
          /\ Cardinality(S) <= MaxPermuted
          /\ \E f \in [S -> 1..MaxPrice] :
             \E prices \in Orderings(PriceList(f)) :
             \E mh \in 1..MaxPermuted :
                c = Call(prices, mh, 1, None, None)
    \/ \E prices \in {FullDay, FullDayReversed} :
          c = Call(prices, 3, 1, None, None)

PermutedInit ==
    /\ PermutedCall(sel_call)
    /\ sel_filtered = <<>>
    /\ sel_result = OptimalHours(<<>>, 0)
    /\ sel_pc = "call"
    /\ SystemIdle

PermutedNext == Calculate

SpecPermuted == PermutedInit /\ [][PermutedNext]_vars

(***************************************************************************)
(* C31: tie-breaking in the scattered strategy picks the lower hour first  *)
(* among equal prices, whatever the order of the input price list: with    *)
(* hours 0-5 at 0.05 (5) and all others at 0.20 (20), max_hours = 3 and    *)
(* min_continuous_hours = 1 the result is hours 0, 1, 2 with total 0.15    *)
(* (15), and permuting the input list does not change the selected hours.  *)
(***************************************************************************)
\* entry p is taken before entry q: it is cheaper, or as cheap and earlier
LowerHourFirst(p, q) == p.price < q.price \/ (p.price = q.price /\ p.hour < q.hour)

\* the full-day scenario, whichever way the list is ordered
FullDayScattered ==
    (Range(sel_call.prices) = Range(FullDay) /\ sel_call.max_hours = 3) =>
        sel_result = OptimalHours(<<0, 1, 2>>, 15)

LowerHourFirstWhenSorted ==
    (sel_pc = "done" /\ sel_call.min_continuous_hours <= 1
        /\ sel_call.time_window_start = None /\ sel_call.time_window_end = None) =>
        /\ \A p \in CallAvailable : \A q \in CallAvailable :
              (q.hour \in SelectedHours /\ p.hour \notin SelectedHours)
                  => LowerHourFirst(q, p)
        /\ FullDayScattered

(***************************************************************************)
(* The last second of the day: the two generation paths that write the     *)
(* end of hour 23 differently, beside the expiry sweep.                    *)
(***************************************************************************)
\* the instants the clock takes late in the day
LateClockTimes == {from_hms(20, 30, 0), from_hms(23, 59, 59)}

LateClockAdvance ==
    /\ \E t \in LateClockTimes : t > now.time /\ now' = [now EXCEPT !.time = t]
    /\ UNCHANGED published

LateEnvironment ==
    \/ LateClockAdvance
    \/ NextDay
    \/ Publish

LateEnvironmentStep ==
    LateEnvironment /\ UNCHANGED <<sel_vars, store_vars, od_vars, fg_vars, bg_vars,
                                   sw_vars, st_vars, dr_vars, cr_vars>>

MidnightNext ==
    \/ OnDemandStep
    \/ SweepStep
    \/ LateEnvironmentStep

SpecMidnight == Init /\ [][MidnightNext]_vars

\* the same day's end with the background path in the place of the requests
MidnightBackgroundNext ==
    \/ BackgroundStep
    \/ SweepStep
    \/ LateEnvironmentStep

SpecMidnightBackground == Init /\ [][MidnightBackgroundNext]_vars

(***************************************************************************)
(* C32: a pending action that starts at 23:00 is never marked missed by    *)
(* the expiry sweep while the current date equals its scheduled date,      *)
(* whichever generation path created it; it is marked missed only once the *)
(* next day has arrived.                                                   *)
(***************************************************************************)
\* a pending action of the sweep's own date that starts at 23:00
LastHourOfToday(a) ==
    /\ a.status = "pending"
    /\ a.start_time = from_hms(23, 0, 0)
    /\ a.scheduled_date = sw_now.date

LastHourKeptToday ==
    SweepUpdateStep =>
        \A a \in scheduled_actions :
            LastHourOfToday(a) => \A b \in Successors(a) : b.status # "missed"

C32_LastHourNotMissedSameDay == [][LastHourKeptToday]_vars

\* the same for the rows of the background path, whose hour 23 ends at 00:00
WrappedLastHourKeptToday ==
    SweepUpdateStep =>
        \A a \in scheduled_actions :
            (LastHourOfToday(a) /\ a.end_time = end_time_wrapped(23))
                => \A b \in Successors(a) : b.status # "missed"

WrappedLastHourNotMissedSameDay == [][WrappedLastHourKeptToday]_vars

(***************************************************************************)
(* The rule requests beside the background task: the runtime runs the      *)
(* background task whenever it can take a step, every call it awaits       *)
(* returns, with Ok or with Err, and time passes.                          *)
(***************************************************************************)
AutomaticNext ==
    \/ OnDemandStep
    \/ BackgroundStep
    \/ BackgroundFailureStep
    \/ EnvironmentStep

SpecAutomatic ==
    /\ Init
    /\ [][AutomaticNext]_vars
    /\ WF_vars(BackgroundFailureStep \/ BackgroundStep)
    /\ WF_vars(EnvironmentStep)

(***************************************************************************)
(* C33: whenever on-demand regeneration reports that tomorrow's prices are *)
(* not yet available and that tomorrow's schedules will be generated       *)
(* automatically, and the rule stays enabled and applies to tomorrow's     *)
(* weekday, the background task eventually creates the rule's entries for  *)
(* tomorrow once the price source holds tomorrow's prices before that day  *)
(* begins, also when the source earlier returned an empty price set.  The  *)
(* formula states it for the reports made once the day's generation has    *)
(* run.                                                                    *)
(***************************************************************************)
\* the days on which a report about the next day can be made
ReportDays == 0..(MaxDay - 1)

\* the messages that promise a later, automatic generation
AutomaticMessages == {"today passed, tomorrow at 20:30", "prices not yet available"}

\* regeneration on day d is about to return such a message
ReportsAutomatic(d) ==
    /\ od_pc = "respond"
    /\ od_now.date = d
    /\ ~od_stats.tomorrow_available
    /\ regenerate_message(od_stats) \in AutomaticMessages

\* the daily generation of day d for day d + 1 has run and was counted as
\* done: it met an empty price set or no enabled rule
DailyGenerationDone(d) ==
    /\ now.date = d
    /\ last_generation_date = Some(d + 1)
    /\ ~retry_pending
    /\ bg_pc = "wait"

\* the source holds the prices of day d + 1 while it is still day d
PublishedInTime(d) == now.date = d /\ published >= d + 1

RuleApplies(id, date) ==
    /\ rules[id].is_enabled
    /\ includes_day(rules[id].days_of_week, date)

\* the rule has its entries for day d + 1, or no longer applies to that day
TomorrowSettled(d) ==
    \A id \in RuleIds :
        RuleApplies(id, d + 1)
            => \E a \in scheduled_actions : a.rule_id = id /\ a.scheduled_date = d + 1

C33_AutomaticGenerationFollows ==
    \A d \in ReportDays :
        []((ReportsAutomatic(d) /\ DailyGenerationDone(d))
              => [](PublishedInTime(d) => <>TomorrowSettled(d)))

\* such a report with the rule enabled all along: the daily generation met
\* an empty price set
ReportAfterEmptyPrices ==
    /\ ReportsAutomatic(0)
    /\ DailyGenerationDone(0)
    /\ updates_done = 1
    /\ published = 0
    /\ RuleApplies(1, 1)
    /\ scheduled_actions = {}

(***************************************************************************)
(* The sweep loop ticking every minute: between two instants of the        *)
(* modelled clock the interval ticks again and again, and a store that     *)
(* eventually succeeds lets a pass through sooner or later.                *)
(***************************************************************************)
\* check_interval.tick() a minute later, the clock within the same instant
SweepRetick ==
    /\ sw_pc = "wait"
    /\ sw_now = now
    /\ sw_pc' = "mark_today"
    /\ UNCHANGED <<store_vars, sw_now, sw_result>>

SweepRetickStep ==
    SweepRetick /\ UNCHANGED <<sel_vars, env_vars, od_vars, fg_vars, bg_vars, st_vars, dr_vars, cr_vars>>

\* an UPDATE of the sweep that the store carries out
SweepTodayOkStep == SweepStep /\ sw_pc = "mark_today" /\ sw_pc' = "mark_old"

SweepOldOkStep == SweepStep /\ sw_pc = "mark_old" /\ sw_result' = "ok"

ExpiryNext ==
    \/ BackgroundStep
    \/ SweepStep
    \/ SweepRetickStep
    \/ EnvironmentStep

SpecExpiry ==
    /\ Init
    /\ [][ExpiryNext]_vars
    /\ WF_vars(SweepStep \/ SweepRetickStep)
    /\ SF_vars(SweepTodayOkStep)
    /\ SF_vars(SweepOldOkStep)

(***************************************************************************)
(* C34: no action stays pending forever after its day has passed: under    *)
(* fair ticking of the sweep loop and a store that eventually succeeds,    *)
(* every action that is pending with scheduled_date before today is        *)
(* eventually marked missed, the hour-23 actions whose end time wraps to   *)
(* 00:00 included, unless the executor reports a status for it first.      *)
(***************************************************************************)
\* the dates that pass, and the start times an action may have
ActionDates == 0..(MaxDay - 1)
ActionStarts == {from_hms(DayPrices[i].hour, 0, 0) : i \in 1..Len(DayPrices)}

\* the action of rule 1 at `start` of `date` is pending and its day has passed
PendingAfterItsDay(date, start) ==
    \E a \in scheduled_actions :
        /\ a.scheduled_date = date
        /\ a.start_time = start
        /\ a.status = "pending"
        /\ a.scheduled_date < now.date

\* the action is missed, or has the status the executor reported
MissedOrReported(date, start) ==
    \E a \in scheduled_actions :
        /\ a.scheduled_date = date
        /\ a.start_time = start
        /\ a.status \in Terminal

C34_NoActionPendingForever ==
    \A date \in ActionDates : \A start \in ActionStarts :
        PendingAfterItsDay(date, start) ~> MissedOrReported(date, start)

\* an hour-23 action of a past day, its end wrapped to 00:00, is missed
C34_Witness ==
    \E a \in scheduled_actions :
        /\ a.start_time = from_hms(23, 0, 0)
        /\ a.end_time = end_time_wrapped(23)
        /\ a.scheduled_date < now.date
        /\ a.status = "missed"
        /\ sw_result = "ok"

(***************************************************************************)
(* C35: every retry of a failed daily generation targets the same date as  *)
(* the attempt that failed: when the attempt made on day D for day D + 1   *)
(* fails and the retries go on past midnight, they still generate for      *)
(* day D + 1.                                                              *)
(***************************************************************************)
\* a tick outside the generation minute starts an attempt: a retry
RetryStart ==
    /\ DailyAttemptStart
    /\ retry_pending
    /\ IsSome(last_retry)
    /\ ~InGenerationMinute(now.time)

\* the date the attempt that failed at last_retry was made for
FailedTarget == Unwrap(last_retry).date + 1

RetryKeepsItsDate == RetryStart => bg_date' = FailedTarget

C35_RetryKeepsItsDate == [][RetryKeepsItsDate]_vars

\* the same for the retries made before midnight
RetryKeepsItsDateSameDay ==
    (RetryStart /\ now.date = Unwrap(last_retry).date) => bg_date' = FailedTarget

RetryKeepsItsDateBeforeMidnight == [][RetryKeepsItsDateSameDay]_vars

(***************************************************************************)
(* C36: disabling a rule and then re-enabling it, with unchanged prices    *)
(* and rule parameters, restores its schedule: after the re-enable, every  *)
(* selected hour that starts after now has a pending action again.         *)
(***************************************************************************)
\* the rule of the request applies to the date and has, for every hour
\* selected from the prices of the day that starts after `min_time`, a
\* pending action
HasItsSchedule(rule, date, min_time) ==
    includes_day(rule.days_of_week, date) =>
        \A i \in 1..Len(rule_hours(rule, DayPrices)) :
            LET start == from_hms(rule_hours(rule, DayPrices)[i], 0, 0)
            IN (IsSome(min_time) => start > Unwrap(min_time))
                  => \E a \in scheduled_actions' :
                        /\ a.rule_id = rule.id
                        /\ a.scheduled_date = date
                        /\ a.start_time = start
                        /\ a.status = "pending"

\* the rule as it is when the server starts
RuleAtStart(id) == Rule(id, 2, 1, None, None, ALL_DAYS, TRUE)

\* the regeneration of an update that leaves the rule enabled, with the
\* parameters it had at the start, returns; the prices of today and of
\* tomorrow have been there
EnabledUpdateReturns ==
    /\ RespondStep
    /\ od_request = "update"
    /\ od_rule = RuleAtStart(od_rule.id)
    /\ od_stats.today_available
    /\ od_stats.tomorrow_available

ScheduleRestored ==
    EnabledUpdateReturns =>
        /\ HasItsSchedule(od_rule, od_now.date, Some(od_now.time))
        /\ HasItsSchedule(od_rule, od_now.date + 1, None)

C36_ReenableRestores == [][ScheduleRestored]_vars

(***************************************************************************)
(* An on-demand regeneration under a failing price source.                 *)
(***************************************************************************)
\* the updates by their number, and the dates a regeneration generates for
UpdateNumbers == 1..MaxUpdates
RegenDates == 0..(MaxDay + 1)

\* the rule of the request has a pending action at this date and start
RequestRulePending(date, start) ==
    \E a \in scheduled_actions :
        /\ a.rule_id = od_rule.id
        /\ a.scheduled_date = date
        /\ a.start_time = start
        /\ a.status = "pending"

\* update k is about to regenerate, and the rule has a pending action at
\* this date and start that starts after now
PendingBeforeCall(k, date, start) ==
    /\ od_pc = "regen_delete"
    /\ updates_done = k
    /\ RequestRulePending(date, start)
    /\ (date > now.date \/ (date = now.date /\ start > now.time))

\* the regeneration of update k returns, the price source having failed or
\* returned no prices for this date
ReturnsWithoutPrices(k, date) ==
    /\ od_pc = "respond"
    /\ updates_done = k
    /\ \/ date = od_now.date /\ ~od_stats.today_available
       \/ date = od_now.date + 1 /\ ~od_stats.tomorrow_available

\* C37: an on-demand regeneration during which the price source fails or
\* returns no prices for a date does not lose that date's schedule: the
\* pending actions of the rule for that date that existed before the call
\* and start after now are still pending when the call returns
C37_FailedFetchKeepsSchedule ==
    \A k \in UpdateNumbers, date \in RegenDates, start \in ActionStarts :
        [](PendingBeforeCall(k, date, start)
              => [](ReturnsWithoutPrices(k, date) => RequestRulePending(date, start)))

(***************************************************************************)
(* A disabled rule beside the generation paths.                            *)
(***************************************************************************)
\* the last request for the rule disabled it and has completed
DisableCompleted(id) ==
    /\ id \in DOMAIN rules
    /\ ~rules[id].is_enabled
    /\ od_pc = "idle"

\* the pending actions of the rule that start after now
PendingFutureOf(id) ==
    {a \in scheduled_actions :
        /\ a.rule_id = id
        /\ a.status = "pending"
        /\ starts_after(a, now.date, now.time)}

\* C38: once a disable request for a rule has completed and the rule has not
\* been re-enabled, the rule has no pending action that starts in the
\* future, under any interleaving with the daily generation, the startup
\* backfill or a forced generation that read the rule list earlier
C38_DisabledRuleHasNoPendingFuture ==
    \A id \in UpdatableRules : DisableCompleted(id) => PendingFutureOf(id) = {}

(***************************************************************************)
(* Rule updates that change max_hours beside the daily generation.         *)
(***************************************************************************)
\* what an update of max_hours sets: the rule stays enabled
HourConfigs ==
    {Rule(id, max_hours, 1, None, None, ALL_DAYS, TRUE) :
        id \in UpdatableRules, max_hours \in 1..2}

\* UPDATE rules SET ... WHERE id = $8 RETURNING *, max_hours given
UpdateRuleHours ==
    /\ od_pc = "idle"
    /\ updates_done < MaxUpdates
    /\ \E updated \in HourConfigs :
          /\ updated.id \in DOMAIN rules
          /\ rules' = [rules EXCEPT ![updated.id] = updated]
          /\ od_rule' = updated
          /\ od_pc' = "regen_delete"
    /\ updates_done' = updates_done + 1
    /\ od_request' = "update"
    /\ od_response' = NoResponse
    /\ UNCHANGED <<scheduled_actions, od_now, od_todo, od_stats>>

OnDemandHours ==
    \/ UpdateRuleHours
    \/ RegenDelete
    \/ RegenFetchToday
    \/ RegenInsert
    \/ RegenFetchTomorrow
    \/ RegenRespond

OnDemandHoursStep ==
    OnDemandHours
       /\ UNCHANGED <<sel_vars, env_vars, fg_vars, bg_vars, sw_vars, st_vars, dr_vars, cr_vars>>

HoursNext ==
    \/ OnDemandHoursStep
    \/ BackgroundStep
    \/ EnvironmentStep

SpecHours == Init /\ [][HoursNext]_vars

\* no request is in flight and the generation loop holds no rows to insert
NothingInFlight ==
    /\ od_pc = "idle"
    /\ bg_todo = <<>>

\* C39: for every rule and date, the number of pending actions that start
\* in the future is at most the rule's current max_hours, under any
\* interleaving of rule updates with the daily generation loop
C39_PendingWithinMaxHours ==
    NothingInFlight =>
        \A id \in DOMAIN rules, date \in RegenDates :
            Cardinality({a \in PendingFutureOf(id) : a.scheduled_date = date})
                <= rules[id].max_hours

(***************************************************************************)
(* The three generation paths, each run alone from an empty table.         *)
(***************************************************************************)
\* the path the call takes: regenerate_schedules_for_rule (rules.rs),
\* generate_schedule_now (schedule.rs), generate_schedules_for_date
\* (background_tasks.rs)
PathKinds == {"on_demand", "forced", "background"}

\* the call that runs
PathCall == 1

\* the rows generate_schedule_now inserts, today's and then tomorrow's
rows_forced_now ==
    (IF cr_today.ok
     THEN generate_schedules_for_rules(enabled_rules, cr_today.prices, now.date)
     ELSE <<>>)
    \o (IF cr_tomorrow.ok /\ cr_tomorrow.prices # <<>>
        THEN generate_schedules_for_rules(enabled_rules, cr_tomorrow.prices, now.date + 1)
        ELSE <<>>)

\* generate_schedule_now of call c: the enabled rules are selected and the
\* prices fetched
PathForced(c) ==
    /\ cr_kind[c] = "forced"
    /\ cr_pc[c] = "start"
    /\ cr_todo' = [cr_todo EXCEPT ![c] = rows_forced_now]
    /\ cr_pc' = [cr_pc EXCEPT ![c] = IF rows_forced_now = <<>> THEN "done" ELSE "insert"]
    /\ UNCHANGED <<store_vars, cr_kind, cr_date, cr_today, cr_tomorrow, cr_initial>>

\* one call of one of the three paths is about to start on an empty table,
\* tomorrow the date at hand
PathsInit ==
    /\ SelectorIdle
    /\ TasksIdle
    /\ now \in {[date |-> 0, time |-> t] : t \in ClockTimes}
    /\ published \in {0, 1}
    /\ rules \in {[id \in RuleIds |-> rule] : rule \in ConcurrentRules}
    /\ scheduled_actions = {}
    /\ cr_initial = {}
    /\ cr_today \in get_today_prices
    /\ cr_tomorrow \in get_tomorrow_prices
    /\ cr_kind \in {[c \in Calls |-> k] : k \in PathKinds}
    /\ cr_date = now.date + 1
    /\ cr_pc = [c \in Calls |-> IF c = PathCall THEN "start" ELSE "done"]
    /\ cr_todo = [c \in Calls |-> <<>>]

Paths ==
    \/ ConcurrentDelete(PathCall)
    \/ PathForced(PathCall)
    \/ ConcurrentGenerate(PathCall)
    \/ ConcurrentInsert(PathCall)

PathsStep ==
    Paths /\ UNCHANGED <<sel_vars, env_vars, od_vars, fg_vars, bg_vars, sw_vars, st_vars,
                         dr_vars>>

PathsNext == PathsStep

SpecPaths == PathsInit /\ [][PathsNext]_vars

\* the actions the table holds for the rule and the date at hand
PathRows ==
    {a \in scheduled_actions : a.rule_id = cr_rule.id /\ a.scheduled_date = cr_date}

\* the actions generate_schedules_for_rule_and_date of rules.rs leaves for
\* the rule and the date at hand, from an empty table and the same prices
on_demand_rows ==
    IF cr_tomorrow.ok /\ cr_tomorrow.prices # <<>>
    THEN insert_all({}, rows_for_rule_and_date(cr_rule, cr_tomorrow.prices,
                            rule_hours(cr_rule, cr_tomorrow.prices), cr_date, None))
    ELSE {}

\* C40: the three generation paths agree: for the same rule, the same future
\* date and the same prices, from a table with no entries for that rule and
\* date, on-demand regeneration, forced generation and background
\* generation each leave the same set of actions, equal in start time, end
\* time, price and status, also when hour 23 is selected
C40_PathsAgree ==
    cr_pc[PathCall] = "done" => PathRows = on_demand_rows

\* the on-demand and the forced path agree
ForcedAgreesWithOnDemand ==
    (cr_pc[PathCall] = "done" /\ cr_kind[PathCall] # "background")
        => PathRows = on_demand_rows

\* a forced generation has left actions, hour 23 among them
ForcedLeftLastHour ==
    /\ cr_pc[PathCall] = "done"
    /\ cr_kind[PathCall] = "forced"
    /\ \E a \in PathRows : a.start_time = from_hms(23, 0, 0)

=============================================================================
